---- MODULE Spec2Model ----
(***************************************************************************)
(* fc2-live-dl: the HLS segmented downloader (hls.py), the WebSocket       *)
(* control session (fc2.py, util.py) and the recording session             *)
(* (FC2LiveDL.py) as state machines.  Each subsystem has its own           *)
(* specification over its own variables; the variables of the other        *)
(* subsystems stay at their initial values.                                *)
(***************************************************************************)
EXTENDS Integers, Sequences, FiniteSets, TLC

VARIABLES
    \* ---- HLSDownloader (hls.py) and _download_stream (FC2LiveDL.py) ----
    frag_urls,        \* _frag_urls: set of [idx, url, tries], popped lowest idx first
    frag_data,        \* _frag_data: set of [idx, body], popped lowest idx first
    fillPc,           \* position of _fill_queue
    fillPending,      \* the part of frags[new_idx:] still to be put
    last_fragment,    \* _fill_queue.last_fragment (NoFragment = None)
    frag_idx,         \* _fill_queue.frag_idx
    sinceFragment,    \* time.time() - last_fragment_timestamp, saturating
    pollStatus,       \* resp.status of the last GET of the playlist (NoStatus: none)
    workers,          \* per worker: [pc, idx, url, tries, body]
    downloadPc,       \* position of the _download task
    readPc,           \* position of read()/_read()
    readIndex,        \* read().index
    streamPc,         \* position of the _download_stream task
    written,          \* what out.write() received, as a sequence of [idx, body]
    fetches,          \* per fragment index in the pipeline: GETs answered with status > 299
    gaveUp,           \* per fragment index: 0, or the number of failed GETs at give-up
    pollLatency,      \* environment: seconds one GET of the playlist takes
    badLeft,          \* environment: error statuses the server still answers
    raisesLeft,       \* environment: transport errors still to come
    observe,          \* whether the history of the poller below is kept
    polled,           \* history: the playlist the last poll returned
    window,           \* history: the last playlist with entries the server returned
    sliding,          \* history: the playlists so far were a window sliding forward
    enqueued,         \* history: the urls _fill_queue has put, in the order of the puts
    \* ---- FC2WebSocket (fc2.py) and AsyncMap (util.py) ----
    wsNow,           \* time.time(), in seconds
    recvSince,        \* when the pending receive_json of _main_loop was started
    msg_id,           \* _msg_id
    last_heartbeat,   \* _last_heartbeat
    is_ready,         \* _is_ready
    mainPc,           \* position of the _main_loop task
    mainErr,          \* the exception _main_loop ended with: [type, code]
    endFrame,         \* the frame _main_loop raised on: [name, code]
    outbox,           \* the frames handed to send_json, in order: [id, name]
    hbLog,            \* the times at which heartbeat frames were handed to send_json
    handled,          \* _main_loop has handled a frame
    respMap,          \* _msg_responses._map: the set of [id, playlists] stored
    waiting,          \* ids whose pop() task waits on the condition
    comments,         \* number of entries of the comments queue
    hlsPc,            \* position of get_hls_information
    hlsTries,         \* get_hls_information.tries
    reqOwnId,         \* the id _send_message put into the frame of the current call
    reqWaitId,        \* the msg_id _send_message returned to the current call
    popResult,        \* result of the current call's pop() task, or NoMsg
    hlsMsg,           \* get_hls_information.msg after the loop, or NoMsg
    attemptsSent,     \* get_hls_information frames sent by the current call
    sawPlaylists,     \* some response returned to the current call had playlists
    tickSize,         \* environment: seconds between two observations of the clock
    respLeft,         \* environment: _response_ frames the server still sends
    \* ---- FC2LiveDL.download (FC2LiveDL.py) ----
    write_chat,       \* params["write_chat"]
    remux,            \* params["remux"]
    tsExists,         \* os.path.isfile(fname_stream) when the tasks are over
    keep_intermediates, \* params["keep_intermediates"]
    extract_audio,    \* params["extract_audio"]
    muxedExists,      \* os.path.isfile(fname_muxed)
    tsRemoved,        \* os.remove(fname_stream) was called
    remuxInterrupted, \* a cancellation ended the status loop of a remux early
    remuxRan,         \* the remux step was entered
    dlPc,             \* position of download()
    dlExc,            \* the exception in flight in download(), or raised by it
    finIdx,           \* index in tasks of the task the finally block awaits
    tState,           \* per task of the session: its state
    tCancel,          \* per task: cancel() was called and has not reached it yet
    cancelsLeft,      \* environment: external cancellations still to come
    cause,            \* what ended the session first
    \* ---- FC2LiveDL: the mode and the choice of the playlist (FC2LiveDL.py) ----
    quality,          \* params["quality"]
    latency,          \* params["latency"]
    hls_info,         \* the arguments of the get_hls_information response
    selPc,            \* position in the part of download() that chooses the playlist
    mode,             \* download().mode
    p_merged,         \* _get_hls_url.p_merged
    p_sorted,         \* _get_hls_url.p_sorted
    got,              \* what _get_hls_url returned: [url, mode], or the exception raised
    formatted,        \* _format_mode(mode) and _format_mode(got_mode) of the callback
    \* ---- autofc2.Metrics (autofc2.py) ----
    channel_metrics,  \* _channel_metrics: per channel id with an entry, its metrics
    lastEvent,        \* per channel id: type of the last event update() received
                      \* since the last reset of the channel, or 0
    \* ---- AutoFC2 (autofc2.py) ----
    supNow,           \* time.time(), in seconds
    fileDoc,          \* the configuration file: [ok, doc], ok = it can be read and parsed
    docChoices,       \* environment: the files the user may save
    last_valid_config, \* last_valid_config (NoConfig = None)
    editsLeft,        \* environment: edits of the file still to come
    supPc,            \* position of _main
    sleepAt,          \* when sleep_task of _main ends
    spins,            \* passes of the loop of _main in the current second
    taskPc,           \* per channel id: absent from tasks, or the state of tasks[id]
    sleepInfo,        \* per channel id: the sleep of wait_for_debounce
    last_startup_time, \* per channel id: ChannelState._last_startup_time
    starts,           \* per channel id: the last two calls of fc2.download
    live,             \* per channel id: tasks of handle_channel created and not done
    cancelledAt,      \* per channel id: when cancel() was last called on its task
    reloaded,         \* the channels get_channels returned to the last pass
    cfgCall,          \* the last call of get_config: [ok, before, raised, returned]
    edit,             \* the last edit of the file: [at, from, to, fresh]
    autofc2,          \* the "autofc2" section of the file, debounce_time apart: [present, keys]
    watcherPc,        \* config_task: "running", "done"
    metricsPc,        \* metrics_task: "created", "stalled", "done"
    \* ---- FC2LiveDL.download before the tasks, FC2LiveStream (fc2.py) ----
    wait_for_live,    \* params["wait_for_live"]
    write_info_json,  \* params["write_info_json"]
    ffmpegOk,         \* environment: FFMpeg.is_available()
    is_publish,       \* environment: channel_data.is_publish the member API answers
    meta,             \* FC2LiveStream._meta, as its is_publish (NoMeta = None)
    probeLog,         \* the is_publish of the answers to the refetching calls, in order
    steps,            \* what download() has done after the online check
    events,           \* the callback events download() emitted, in order
    togglesLeft,      \* environment: changes of is_publish still to come
    n_frags,          \* _download_stream.n_frags
    total_size,       \* _download_stream.total_size
    progress,         \* the data of the FRAGMENT_PROGRESS events, in order
    dump_websocket,   \* params["dump_websocket"]
    paths,            \* fname_info, fname_thumb, ...: the path of each artifact
    pathPc,           \* position of download() around its _prepare_file calls
    \* ---- util.sanitize_filename ----
    fname_in,         \* the argument of the first call
    sanPc,            \* how many times sanitize_filename was applied
    sanitized,        \* sanitize_filename(fname_in)
    resanitized,      \* sanitize_filename(sanitized)
    \* ---- FC2LiveDL._prepare_file (FC2LiveDL.py) ----
    stem,             \* what the template expands to before ".%(ext)s"
    ext,              \* _prepare_file.ext
    existing,         \* the paths for which os.path.exists is true
    uniqueN,          \* get_unique_name.n
    prepPc,           \* position of _prepare_file
    prepared,         \* what _prepare_file returned last
    resolvesLeft,     \* environment: files still to be written
    \* ---- FC2LiveDL.download: the wait for the selected quality ----
    wait_for_quality_timeout,  \* params["wait_for_quality_timeout"]
    waitNow,          \* time.time()
    started,          \* download.started
    target,           \* download.mode, the result of _get_mode()
    got_mode,         \* download.got_mode (NoMode = None)
    waitPc,           \* position of download() in and after the loop
    polls             \* the calls of get_hls_information: [at, done, exact]
histVars == <<observe, polled, window, sliding, enqueued>>
pollerVars == <<fillPc, fillPending, last_fragment, frag_idx, sinceFragment, pollStatus,
               histVars>>
readerVars == <<readPc, readIndex, written>>
envHLS == <<pollLatency, badLeft, raisesLeft>>
hlsVars == <<frag_urls, frag_data, pollerVars, workers, downloadPc, readerVars,
             streamPc, fetches, gaveUp, envHLS>>
clockVars == <<wsNow, recvSince, last_heartbeat>>
mainVars == <<mainPc, mainErr, endFrame, is_ready, handled, comments>>
sendVars == <<msg_id, outbox, hbLog>>
mapVars == <<respMap, waiting>>
reqVars == <<hlsPc, hlsTries, reqOwnId, reqWaitId, popResult, hlsMsg, attemptsSent,
             sawPlaylists>>
envWS == <<tickSize, respLeft>>
wsVars == <<clockVars, mainVars, sendVars, mapVars, reqVars, envWS>>

paramVars == <<write_chat, remux, tsExists, keep_intermediates, extract_audio>>
fileVars == <<muxedExists, tsRemoved, remuxInterrupted>>
dlVars == <<remuxRan, dlPc, dlExc, finIdx>>
sessVars == <<paramVars, fileVars, dlVars, tState, tCancel, cancelsLeft, cause>>

selVars == <<quality, latency, hls_info, selPc, mode, p_merged, p_sorted, got, formatted>>
metVars == <<channel_metrics, lastEvent>>
supVars == <<supNow, fileDoc, docChoices, last_valid_config, editsLeft, supPc, sleepAt,
             spins, taskPc, sleepInfo, last_startup_time, starts, live, cancelledAt,
             reloaded, cfgCall, edit, autofc2, watcherPc, metricsPc>>
svcVars == <<autofc2, watcherPc, metricsPc>>
startVars == <<wait_for_live, write_info_json, ffmpegOk, is_publish, meta, probeLog, steps,
               events, togglesLeft>>
sanVars == <<fname_in, sanPc, sanitized, resanitized>>
prepVars == <<stem, ext, existing, uniqueN, prepPc, prepared, resolvesLeft>>
evVars == <<n_frags, total_size, progress>>
pathVars == <<dump_websocket, paths, pathPc>>
nameVars == <<sanVars, prepVars, evVars, pathVars>>
waitVars == <<wait_for_quality_timeout, waitNow, started, target, got_mode, waitPc, polls>>
outerVars == <<selVars, metVars, supVars, startVars, nameVars, waitVars>>
coreVars == <<hlsVars, wsVars, sessVars>>

vars == <<hlsVars, wsVars, sessVars, outerVars>>

(***************************************************************************)
(* Bounds of the model and constants of the program                        *)
(***************************************************************************)
\* number of fragments the poller may discover in one run (cap on frag_idx)
MaxFrags == 3
\* number of distinct fragment URLs the server uses
NumUrls == 2
\* longest playlist the server returns
MaxPlaylistLen == 2
\* --threads
Threads == 2
\* capacity of the two priority queues (100 in the program, hls.py:13-14)
QueueCap == 2
\* a fragment is retried while tries < 5 (hls.py:85)
MaxTries == 5
\* the poller gives up after more than 30 s without a new fragment (hls.py:65)
StallTimeout == 30
\* seconds a GET of the playlist takes on a slow server
SlowPoll == 15
\* error statuses (> 299) the server answers in one run
MaxBad == 6
\* transport errors in one run
MaxRaises == 1

NoFragment == 0
Urls == 1..NumUrls
Workers == 1..Threads
EmptyBody == 0

Playlists == UNION {[1..n -> Urls] : n \in 0..MaxPlaylistLen}

\* the payload a successful GET of url returns
BodyOf(url) == url

(***************************************************************************)
(* Helpers                                                                 *)
(***************************************************************************)
Min(S) == CHOOSE x \in S : \A y \in S : x <= y

\* asyncio.PriorityQueue.get(): the entry with the lowest index
Lowest(q) == CHOOSE e \in q : \A f \in q : e.idx <= f.idx

\* asyncio.Queue.full()
Full(q) == Cardinality(q) >= QueueCap

\* list.index(x): position of the first occurrence, 0 when absent (ValueError)
FirstIndex(frags, x) ==
    IF \E k \in 1..Len(frags) : frags[k] = x
    THEN Min({k \in 1..Len(frags) : frags[k] = x})
    ELSE 0

\* a poller that takes every url of every playlist for new
NewIdxForgets(frags, last) == 0

\* new_idx = 1 + frags.index(last_fragment), or 0 when that raises.
\* (Python positions are 0-based: the value here is the number of entries skipped.)
NewIdx(frags, last) == FirstIndex(frags, last)

\* frags[new_idx:]
NewFragments(frags, last) == SubSeq(frags, NewIdx(frags, last) + 1, Len(frags))

\* time.time() - last_fragment_timestamp > 30
Stalled(elapsed) == elapsed > StallTimeout

\* the clock of the poller d seconds later, saturating one past the timeout
Later(elapsed, d) ==
    IF elapsed + d > StallTimeout THEN StallTimeout + 1 ELSE elapsed + d

MayRetryOffByOne(tries) == tries <= MaxTries
\* if tries < 5: retry, else give up
MayRetry(tries) == tries < MaxTries

ReadMatchesAny(p, index) == TRUE
\* _read: if p == index: return frag
ReadMatches(p, index) == p = index

IdleWorker == [pc |-> "idle", idx |-> 0, url |-> 0, tries |-> 0, body |-> 0]
WaitingWorker == [IdleWorker EXCEPT !.pc = "get"]
CancelledWorker == [IdleWorker EXCEPT !.pc = "cancelled"]

(***************************************************************************)
(* HLSDownloader: the state after __init__ / __aenter__                    *)
(***************************************************************************)
\* the statuses of the answers to the GET of the playlist in the model; a GET
\* that raises has none
PollStatuses == {200, 403, 404}
NoStatus == 0 - 1

\* _get_fragment_urls: what a status makes of the answer
PollOutcome(status) ==
    CASE status = 403 -> "StreamEnded"
      [] status = 404 -> "empty"
      [] OTHER -> "playlist"

InitDownloader ==
    /\ frag_urls = {}
    /\ frag_data = {}
    /\ fillPc = "idle"
    /\ fillPending = <<>>
    /\ last_fragment = NoFragment
    /\ frag_idx = 0
    /\ sinceFragment = 0
    /\ pollStatus = NoStatus
    /\ polled = <<>>
    /\ window = <<>>
    /\ sliding = TRUE
    /\ enqueued = <<>>
    /\ workers = [w \in Workers |-> IdleWorker]
    /\ downloadPc = "none"
    /\ readPc = "init"
    /\ readIndex = 0
    /\ streamPc = "running"
    /\ written = <<>>
    /\ fetches = [i \in 0..MaxFrags |-> 0]
    /\ gaveUp = [i \in 0..MaxFrags |-> 0]

\* the downloader at rest, for the specifications of the other subsystems
HLSAtRest ==
    /\ InitDownloader
    /\ observe = FALSE
    /\ pollLatency = 0
    /\ badLeft = 0
    /\ raisesLeft = 0

(***************************************************************************)
(* read(): the first iteration creates the _download task, which creates   *)
(* the workers and enters _fill_queue                                      *)
(***************************************************************************)
ReadStart ==
    /\ readPc = "init"
    /\ streamPc = "running"
    /\ readPc' = "get"
    /\ downloadPc' = "fill"
    /\ fillPc' = "poll"
    /\ workers' = [w \in Workers |-> WaitingWorker]
    /\ UNCHANGED <<frag_urls, frag_data, fillPending, last_fragment, frag_idx,
                   sinceFragment, pollStatus, readIndex, written, streamPc, fetches,
                   gaveUp, envHLS, histVars>>
    /\ UNCHANGED <<wsVars, sessVars, outerVars>>

(***************************************************************************)
(* _fill_queue (the poller).  A put on a queue that is not full does not   *)
(* suspend, so the puts of one poll run on until the queue is full.        *)
(***************************************************************************)
\* for frag in frags[new_idx:]: last_fragment = frag; put((frag_idx, (frag, 0)));
\* frag_idx += 1 -- as far as the queue has room; then the stall check, then
\* sleep(1) and the next GET of the playlist
FillPutAll(new, elapsed) ==
    LET room == QueueCap - Cardinality(frag_urls)
        k    == IF Len(new) <= room THEN Len(new) ELSE room
    IN  /\ frag_urls' = frag_urls \cup
                          {[idx |-> frag_idx + j - 1, url |-> new[j], tries |-> 0] :
                             j \in 1..k}
        /\ frag_idx' = frag_idx + k
        /\ enqueued' = IF observe THEN enqueued \o SubSeq(new, 1, k) ELSE enqueued
        /\ last_fragment' = IF k < Len(new) THEN new[k + 1]
                            ELSE IF k > 0 THEN new[k] ELSE last_fragment
        /\ fillPending' = SubSeq(new, k + 1, Len(new))
        /\ IF k < Len(new)
           THEN /\ fillPc' = "put"
                /\ sinceFragment' = elapsed
           ELSE IF Stalled(elapsed)
           THEN /\ fillPc' = "timeout"
                /\ sinceFragment' = elapsed
           ELSE /\ fillPc' = "poll"
                /\ sinceFragment' = Later(elapsed, 1 + pollLatency)

\* the urls are numbered in the order the server publishes them: a window of
\* the stream is a run of consecutive urls
IsWindow(frags) == \A k \in 2..Len(frags) : frags[k] = frags[k - 1] + 1

\* next is prev slid forward: nothing older at its head, nothing older at its end
SlidForward(prev, next) ==
    \/ prev = <<>>
    \/ next = <<>>
    \/ next[1] >= prev[1] /\ next[Len(next)] >= prev[Len(prev)]

\* the history of the playlists the server returned
Served(frags) ==
    /\ UNCHANGED observe
    /\ IF observe
       THEN /\ polled' = frags
            /\ window' = IF frags = <<>> THEN window ELSE frags
            /\ sliding' = (sliding /\ IsWindow(frags) /\ SlidForward(window, frags))
       ELSE UNCHANGED <<polled, window, sliding>>

\* frags = await self._get_fragment_urls(): a playlist (404 gives the empty one)
FillPoll ==
    /\ fillPc = "poll"
    /\ \E status \in {c \in PollStatuses : PollOutcome(c) # "StreamEnded"} :
       \E frags \in IF PollOutcome(status) = "empty" THEN {<<>>} ELSE Playlists :
         LET new == NewFragments(frags, last_fragment) IN
         /\ frag_idx + Len(new) <= MaxFrags
         /\ pollStatus' = status
         /\ Served(frags)
         /\ FillPutAll(new, IF Len(new) > 0 THEN 0 ELSE sinceFragment)
    /\ UNCHANGED <<frag_data, workers, downloadPc, readerVars, streamPc, fetches,
                   gaveUp, envHLS>>
    /\ UNCHANGED <<wsVars, sessVars, outerVars>>

\* _get_fragment_urls raised (403 -> StreamEnded, or a transport error):
\* except Exception: log and return
FillPollError ==
    /\ fillPc = "poll"
    /\ fillPc' = "error"
    /\ pollStatus' \in {c \in PollStatuses : PollOutcome(c) = "StreamEnded"} \cup {NoStatus}
    /\ UNCHANGED <<frag_urls, frag_data, fillPending, last_fragment, frag_idx,
                   sinceFragment, workers, downloadPc, readerVars, streamPc,
                   fetches, gaveUp, envHLS, histVars>>
    /\ UNCHANGED <<wsVars, sessVars, outerVars>>

\* the blocked put goes through once the queue has room
FillPut ==
    /\ fillPc = "put"
    /\ ~Full(frag_urls)
    /\ FillPutAll(fillPending, sinceFragment)
    /\ UNCHANGED <<pollStatus, observe, polled, window, sliding>>
    /\ UNCHANGED <<frag_data, workers, downloadPc, readerVars, streamPc, fetches,
                   gaveUp, envHLS>>
    /\ UNCHANGED <<wsVars, sessVars, outerVars>>

\* the put blocks on a full queue while the clock runs
FillPutBlocked ==
    /\ fillPc = "put"
    /\ Full(frag_urls)
    /\ ~Stalled(sinceFragment)
    /\ sinceFragment' = Later(sinceFragment, 1 + pollLatency)
    /\ UNCHANGED <<frag_urls, frag_data, fillPc, fillPending, last_fragment,
                   frag_idx, pollStatus, workers, downloadPc, readerVars, streamPc,
                   fetches, gaveUp, envHLS, histVars>>
    /\ UNCHANGED <<wsVars, sessVars, outerVars>>

(***************************************************************************)
(* _download_worker                                                        *)
(***************************************************************************)
\* i, (url, tries) = await self._frag_urls.get(); the GET is started
WorkerGet(w) ==
    /\ workers[w].pc = "get"
    /\ frag_urls # {}
    /\ LET e == Lowest(frag_urls) IN
         /\ frag_urls' = frag_urls \ {e}
         /\ workers' = [workers EXCEPT ![w] =
                          [pc |-> "fetch", idx |-> e.idx, url |-> e.url,
                           tries |-> e.tries, body |-> 0]]
    /\ UNCHANGED <<frag_data, pollerVars, downloadPc, readerVars, streamPc,
                   fetches, gaveUp, envHLS>>
    /\ UNCHANGED <<wsVars, sessVars, outerVars>>

\* await self._frag_data.put((i, body)): at once when there is room, else blocked
PutData(w, body) ==
    IF Full(frag_data)
    THEN /\ workers' = [workers EXCEPT ![w].pc = "put_data", ![w].body = body]
         /\ UNCHANGED frag_data
    ELSE /\ frag_data' = frag_data \cup {[idx |-> workers[w].idx, body |-> body]}
         /\ workers' = [workers EXCEPT ![w] = WaitingWorker]

\* await self._frag_urls.put((i, (url, tries + 1)))
PutRetry(w) ==
    IF Full(frag_urls)
    THEN /\ workers' = [workers EXCEPT ![w].pc = "put_retry"]
         /\ UNCHANGED frag_urls
    ELSE /\ frag_urls' = frag_urls \cup
                           {[idx |-> workers[w].idx, url |-> workers[w].url,
                             tries |-> workers[w].tries + 1]}
         /\ workers' = [workers EXCEPT ![w] = WaitingWorker]

\* status <= 299: the body is read and put on _frag_data
WorkerFetchOk(w) ==
    /\ workers[w].pc = "fetch"
    /\ PutData(w, BodyOf(workers[w].url))
    /\ fetches' = [fetches EXCEPT ![workers[w].idx] = 0]
    /\ UNCHANGED <<frag_urls, pollerVars, downloadPc, readerVars, streamPc,
                   gaveUp, envHLS>>
    /\ UNCHANGED <<wsVars, sessVars, outerVars>>

\* status > 299: retry while tries < 5, else give up with b""
WorkerFetchBad(w) ==
    /\ workers[w].pc = "fetch"
    /\ badLeft > 0
    /\ badLeft' = badLeft - 1
    /\ IF MayRetry(workers[w].tries)
       THEN /\ PutRetry(w)
            /\ fetches' = [fetches EXCEPT ![workers[w].idx] = @ + 1]
            /\ UNCHANGED <<frag_data, gaveUp>>
       ELSE /\ PutData(w, EmptyBody)
            /\ gaveUp' = [gaveUp EXCEPT ![workers[w].idx] = fetches[workers[w].idx] + 1]
            /\ fetches' = [fetches EXCEPT ![workers[w].idx] = 0]
            /\ UNCHANGED frag_urls
    /\ UNCHANGED <<pollerVars, downloadPc, readerVars, streamPc, pollLatency,
                   raisesLeft>>
    /\ UNCHANGED <<wsVars, sessVars, outerVars>>

\* the GET or the read of the body raised: except Exception: log, next item
WorkerFetchRaises(w) ==
    /\ workers[w].pc = "fetch"
    /\ raisesLeft > 0
    /\ raisesLeft' = raisesLeft - 1
    /\ workers' = [workers EXCEPT ![w] = WaitingWorker]
    /\ fetches' = [fetches EXCEPT ![workers[w].idx] = 0]
    /\ UNCHANGED <<frag_urls, frag_data, pollerVars, downloadPc, readerVars,
                   streamPc, gaveUp, pollLatency, badLeft>>
    /\ UNCHANGED <<wsVars, sessVars, outerVars>>

\* a put that was blocked on a full _frag_urls goes through
WorkerPutRetry(w) ==
    /\ workers[w].pc = "put_retry"
    /\ ~Full(frag_urls)
    /\ PutRetry(w)
    /\ UNCHANGED <<frag_data, pollerVars, downloadPc, readerVars, streamPc,
                   fetches, gaveUp, envHLS>>
    /\ UNCHANGED <<wsVars, sessVars, outerVars>>

\* a put that was blocked on a full _frag_data goes through
WorkerPutData(w) ==
    /\ workers[w].pc = "put_data"
    /\ ~Full(frag_data)
    /\ PutData(w, workers[w].body)
    /\ UNCHANGED <<frag_urls, pollerVars, downloadPc, readerVars, streamPc,
                   fetches, gaveUp, envHLS>>
    /\ UNCHANGED <<wsVars, sessVars, outerVars>>

(***************************************************************************)
(* _download: once _fill_queue has returned, every worker is cancelled and *)
(* awaited, and the task is done                                           *)
(***************************************************************************)
DownloadFinish ==
    /\ downloadPc = "fill"
    /\ fillPc \in {"timeout", "error"}
    /\ workers' = [w \in Workers |-> CancelledWorker]
    /\ downloadPc' = "done"
    /\ UNCHANGED <<frag_urls, frag_data, pollerVars, readerVars, streamPc,
                   fetches, gaveUp, envHLS>>
    /\ UNCHANGED <<wsVars, sessVars, outerVars>>

(***************************************************************************)
(* _read / read, and the body of the async for in _download_stream         *)
(***************************************************************************)
\* p, frag = await self._frag_data.get(); on a match the fragment is yielded
\* and written; otherwise it is put back and the reader sleeps 0.1 s
ReaderGet ==
    /\ readPc = "get"
    /\ streamPc = "running"
    /\ frag_data # {}
    /\ LET e == Lowest(frag_data) IN
         IF ReadMatches(e.idx, readIndex)
         THEN /\ frag_data' = frag_data \ {e}
              /\ written' = Append(written, e)
              /\ readIndex' = readIndex + 1
              /\ readPc' = "get"
         ELSE /\ readPc' = "sleep"
              /\ UNCHANGED <<frag_data, written, readIndex>>
    /\ UNCHANGED <<frag_urls, pollerVars, workers, downloadPc, streamPc, fetches,
                   gaveUp, envHLS>>
    /\ UNCHANGED <<wsVars, sessVars, outerVars>>

\* await asyncio.sleep(0.1) is over
ReaderWake ==
    /\ readPc = "sleep"
    /\ readPc' = "get"
    /\ UNCHANGED <<frag_urls, frag_data, pollerVars, workers, downloadPc,
                   readIndex, written, streamPc, fetches, gaveUp, envHLS>>
    /\ UNCHANGED <<wsVars, sessVars, outerVars>>

(***************************************************************************)
(* Cancellation of the _download_stream task (by the recording session):   *)
(* read(): except CancelledError: self._download_task.cancel(); await it,  *)
(* _download: except CancelledError: cancel and await every worker; then   *)
(* the generator returns and _download_stream returns                      *)
(***************************************************************************)
CancelStream ==
    /\ streamPc = "running"
    /\ readPc \in {"get", "sleep"}
    /\ readPc' = "cancelled"
    /\ fillPc' = IF fillPc \in {"timeout", "error"} THEN fillPc ELSE "cancelled"
    /\ workers' = [w \in Workers |-> CancelledWorker]
    /\ downloadPc' = "done"
    /\ streamPc' = "done"
    /\ UNCHANGED <<frag_urls, frag_data, fillPending, last_fragment, frag_idx,
                   sinceFragment, pollStatus, readIndex, written, fetches, gaveUp,
                   envHLS, histVars>>
    /\ UNCHANGED <<wsVars, sessVars, outerVars>>

\* the steps the _download_stream task can take by itself
StreamStep == ReaderGet \/ ReaderWake

(***************************************************************************)
(* FC2WebSocket: bounds and constants                                      *)
(***************************************************************************)
\* heartbeat_interval = 30 (fc2.py:10)
HeartbeatInterval == 30
\* max_tries = 5 (fc2.py:55)
MaxHlsTries == 5
\* time.time() when the session is opened
StartTime == 30
\* seconds of one session that are observed
Horizon == 32
\* cap on _msg_id
MaxMsgId == 7
\* cap on the comments queue
MaxComments == 1
\* _response_ frames of one session
MaxResponses == 2

MaxTime == StartTime + Horizon

\* arguments.code of control_disconnection frames
Codes == {4101, 4507, 4512, 9999}

NoMsg == [id |-> 0, playlists |-> FALSE]
NoError == [type |-> "none", code |-> 0]
NoFrame == [name |-> "none", code |-> 0]

DisconnectionErrorSwapped(code) ==
    CASE code = 4101 -> [type |-> "LoginRequiredError", code |-> 4507]
      [] code = 4507 -> [type |-> "PaidProgramDisconnection", code |-> 4101]
      [] code = 4512 -> [type |-> "MultipleConnectionError", code |-> 4512]
      [] OTHER       -> [type |-> "ServerDisconnection", code |-> code]
\* the exception raised for a control_disconnection frame
DisconnectionError(code) ==
    CASE code = 4101 -> [type |-> "PaidProgramDisconnection", code |-> 4101]
      [] code = 4507 -> [type |-> "LoginRequiredError", code |-> 4507]
      [] code = 4512 -> [type |-> "MultipleConnectionError", code |-> 4512]
      [] OTHER       -> [type |-> "ServerDisconnection", code |-> code]

HeartbeatDueEarly(now, last) == ~(now - last < HeartbeatInterval - 1)
\* _try_heartbeat: if time.time() - self._last_heartbeat < interval: return
HeartbeatDue(now, last) == ~(now - last < HeartbeatInterval)

NextMsgIdSame(id) == IF id = 0 THEN 1 ELSE id
\* _send_message: self._msg_id += 1
NextMsgId(id) == id + 1

\* wait_disconnection: await self._task re-raises what _main_loop ended with
WaitDisconnection == IF mainPc = "done" THEN mainErr ELSE NoError

(***************************************************************************)
(* FC2WebSocket: the state after __aenter__                                *)
(***************************************************************************)
InitSocket ==
    /\ wsNow = StartTime
    /\ recvSince = StartTime
    /\ msg_id = 0
    /\ last_heartbeat = 0
    /\ is_ready = FALSE
    /\ mainPc = "recv"
    /\ mainErr = NoError
    /\ endFrame = NoFrame
    /\ outbox = <<>>
    /\ hbLog = <<>>
    /\ handled = FALSE
    /\ respMap = {}
    /\ waiting = {}
    /\ comments = 0
    /\ hlsPc = "idle"
    /\ hlsTries = 0
    /\ reqOwnId = 0
    /\ reqWaitId = 0
    /\ popResult = NoMsg
    /\ hlsMsg = NoMsg
    /\ attemptsSent = 0
    /\ sawPlaylists = FALSE

\* the control session at rest, for the specifications of the other subsystems
WSAtRest ==
    /\ InitSocket
    /\ tickSize = 1
    /\ respLeft = 0

\* a receive that is never given up
ReceiveExpiredNever(now, since) == FALSE

\* asyncio.wait_for(self._ws.receive_json(), self.heartbeat_interval): the
\* receive started at since has run out at now
ReceiveExpired(now, since) == now - since >= HeartbeatInterval

\* a second passes; a pending receive_json is given up after heartbeat_interval
WSTick ==
    /\ wsNow + tickSize <= MaxTime
    /\ mainPc = "recv" => ~ReceiveExpired(wsNow, recvSince)
    /\ mainPc # "done"
    /\ wsNow' = wsNow + tickSize
    /\ UNCHANGED <<recvSince, last_heartbeat, mainVars, sendVars, mapVars, reqVars,
                   envWS>>
    /\ UNCHANGED <<hlsVars, sessVars, outerVars>>

(***************************************************************************)
(* _main_loop                                                              *)
(***************************************************************************)
\* await self._try_heartbeat(), up to the await of send_json; else back to receive
TryHeartbeat ==
    IF HeartbeatDue(wsNow, last_heartbeat)
    THEN /\ msg_id < MaxMsgId
         /\ msg_id' = NextMsgId(msg_id)
         /\ outbox' = Append(outbox, [id |-> NextMsgId(msg_id), name |-> "heartbeat"])
         /\ hbLog' = Append(hbLog, wsNow)
         /\ mainPc' = "hb_send"
         /\ UNCHANGED recvSince
    ELSE /\ mainPc' = "recv"
         /\ recvSince' = wsNow
         /\ UNCHANGED sendVars

\* connect_complete
MainConnectComplete ==
    /\ mainPc = "recv"
    /\ is_ready' = TRUE
    /\ handled' = TRUE
    /\ TryHeartbeat
    /\ UNCHANGED <<wsNow, last_heartbeat, mainErr, endFrame, comments, mapVars, reqVars, envWS>>
    /\ UNCHANGED <<hlsVars, sessVars, outerVars>>

\* _response_: await self._msg_responses.put(msg["id"], msg) -- notify_all; every
\* pop() task wakes before the next frame is read: the one whose key is in the
\* map removes and returns its value, the others wait again
MainResponse ==
    /\ mainPc = "recv"
    /\ respLeft > 0
    /\ respLeft' = respLeft - 1
    /\ \E k \in 1..Len(outbox) : \E pl \in BOOLEAN :
         /\ pl => outbox[k].name = "get_hls_information"
         /\ LET put == {m \in respMap : m.id # outbox[k].id}
                         \cup {[id |-> outbox[k].id, playlists |-> pl]}
                served == {m \in put : m.id \in waiting}
            IN /\ respMap' = put \ served
               /\ waiting' = waiting \ {m.id : m \in served}
               /\ popResult' = IF hlsPc = "waiting" /\ (\E m \in served : m.id = reqWaitId)
                               THEN CHOOSE m \in served : m.id = reqWaitId
                               ELSE popResult
    /\ handled' = TRUE
    /\ TryHeartbeat
    /\ UNCHANGED <<wsNow, last_heartbeat, mainErr, endFrame, is_ready, comments, hlsPc, hlsTries,
                   reqOwnId, reqWaitId, hlsMsg, attemptsSent, sawPlaylists, tickSize>>
    /\ UNCHANGED <<hlsVars, sessVars, outerVars>>

\* control_disconnection: raise the error of arguments.code
MainDisconnection ==
    /\ mainPc = "recv"
    /\ \E code \in Codes :
         /\ mainErr' = DisconnectionError(code)
         /\ endFrame' = [name |-> "control_disconnection", code |-> code]
    /\ mainPc' = "done"
    /\ handled' = TRUE
    /\ UNCHANGED <<clockVars, is_ready, comments, sendVars, mapVars, reqVars, envWS>>
    /\ UNCHANGED <<hlsVars, sessVars, outerVars>>

\* publish_stop: raise StreamEnded
MainPublishStop ==
    /\ mainPc = "recv"
    /\ mainErr' = [type |-> "StreamEnded", code |-> 0]
    /\ endFrame' = [name |-> "publish_stop", code |-> 0]
    /\ mainPc' = "done"
    /\ handled' = TRUE
    /\ UNCHANGED <<clockVars, is_ready, comments, sendVars, mapVars, reqVars, envWS>>
    /\ UNCHANGED <<hlsVars, sessVars, outerVars>>

\* comment: every element of arguments.comments is put on the comments queue
MainComment ==
    /\ mainPc = "recv"
    /\ comments < MaxComments
    /\ comments' = comments + 1
    /\ handled' = TRUE
    /\ TryHeartbeat
    /\ UNCHANGED <<wsNow, last_heartbeat, mainErr, endFrame, is_ready, mapVars, reqVars, envWS>>
    /\ UNCHANGED <<hlsVars, sessVars, outerVars>>

\* a frame with any other name
MainOtherFrame ==
    /\ mainPc = "recv"
    /\ handled' = TRUE
    /\ TryHeartbeat
    /\ UNCHANGED <<wsNow, last_heartbeat, mainErr, endFrame, is_ready, comments, mapVars,
                   reqVars, envWS>>
    /\ UNCHANGED <<hlsVars, sessVars, outerVars>>

\* asyncio.wait_for(receive_json, heartbeat_interval) ran out
MainRecvTimeout ==
    /\ mainPc = "recv"
    /\ ReceiveExpired(wsNow, recvSince)
    /\ mainErr' = [type |-> "TimeoutError", code |-> 0]
    /\ mainPc' = "done"
    /\ UNCHANGED <<clockVars, endFrame, is_ready, handled, comments, sendVars, mapVars,
                   reqVars, envWS>>
    /\ UNCHANGED <<hlsVars, sessVars, outerVars>>

\* _try_heartbeat after send_json of the heartbeat is over (sent, or TimeoutError
\* caught by _send_message): self._last_heartbeat = time.time()
MainHeartbeatSent ==
    /\ mainPc = "hb_send"
    /\ last_heartbeat' = wsNow
    /\ mainPc' = "recv"
    /\ recvSince' = wsNow
    /\ UNCHANGED <<wsNow, mainErr, endFrame, is_ready, handled, comments, sendVars, mapVars,
                   reqVars, envWS>>
    /\ UNCHANGED <<hlsVars, sessVars, outerVars>>

(***************************************************************************)
(* get_hls_information and _send_message_and_wait                          *)
(***************************************************************************)
\* _send_message, up to the await of send_json: the id is taken and the frame built
ReqEmit ==
    /\ msg_id < MaxMsgId
    /\ msg_id' = NextMsgId(msg_id)
    /\ outbox' = Append(outbox, [id |-> NextMsgId(msg_id),
                                 name |-> "get_hls_information"])
    /\ reqOwnId' = NextMsgId(msg_id)
    /\ hlsPc' = "sending"
    /\ UNCHANGED hbLog

\* after the loop: if tries == max_tries: raise EmptyPlaylistException
ReqFinish(msg, n) ==
    /\ hlsPc' = IF n = MaxHlsTries THEN "failed_empty" ELSE "returned"
    /\ hlsMsg' = msg

\* the rest of one loop iteration, given what _send_message_and_wait returned
ReqAfterAttempt(msg) ==
    /\ hlsTries' = hlsTries + 1
    /\ sawPlaylists' = (sawPlaylists \/ msg.playlists)
    /\ IF msg = NoMsg \/ ~msg.playlists
       THEN /\ hlsPc' = "backoff"
            /\ UNCHANGED hlsMsg
       ELSE ReqFinish(msg, hlsTries + 1)

\* get_hls_information is called: msg = None, tries = 0, first _send_message
ReqStart ==
    /\ hlsPc \in {"idle", "returned"}
    /\ mainPc # "done"
    /\ ReqEmit
    /\ hlsTries' = 0
    /\ attemptsSent' = 1
    /\ sawPlaylists' = FALSE
    /\ hlsMsg' = NoMsg
    /\ popResult' = NoMsg
    /\ UNCHANGED <<clockVars, mainVars, mapVars, reqWaitId, envWS>>
    /\ UNCHANGED <<hlsVars, sessVars, outerVars>>

\* send_json is over: return self._msg_id, then the pop task is created and
\* awaited; or TimeoutError: _send_message returns None
ReqSendDone ==
    /\ hlsPc = "sending"
    /\ \/ /\ reqWaitId' = msg_id
          /\ waiting' = waiting \cup {msg_id}
          /\ popResult' = NoMsg
          /\ hlsPc' = "waiting"
          /\ UNCHANGED <<hlsTries, hlsMsg, sawPlaylists, respMap>>
       \/ /\ ReqAfterAttempt(NoMsg)
          /\ UNCHANGED <<reqWaitId, popResult, mapVars>>
    /\ UNCHANGED <<clockVars, mainVars, sendVars, reqOwnId, attemptsSent, envWS>>
    /\ UNCHANGED <<hlsVars, sessVars, outerVars>>

\* the pop task is the one that completed: return done.result()
ReqGotResponse ==
    /\ hlsPc = "waiting"
    /\ popResult # NoMsg
    /\ ReqAfterAttempt(popResult)
    /\ UNCHANGED <<clockVars, mainVars, sendVars, mapVars, reqOwnId, reqWaitId,
                   popResult, attemptsSent, envWS>>
    /\ UNCHANGED <<hlsVars, sessVars, outerVars>>

\* the timeout task is the one that completed: return None (the pop task stays)
ReqTimeout ==
    /\ hlsPc = "waiting"
    /\ ReqAfterAttempt(NoMsg)
    /\ UNCHANGED <<clockVars, mainVars, sendVars, mapVars, reqOwnId, reqWaitId,
                   popResult, attemptsSent, envWS>>
    /\ UNCHANGED <<hlsVars, sessVars, outerVars>>

\* the reader task is the one that completed: one pending task is cancelled
\* and the reader's exception is raised
ReqReaderDied ==
    /\ hlsPc = "waiting"
    /\ mainPc = "done"
    /\ hlsPc' = "failed_reader"
    /\ \/ waiting' = waiting \ {reqWaitId}
       \/ UNCHANGED waiting
    /\ UNCHANGED <<clockVars, mainVars, sendVars, respMap, hlsTries, reqOwnId,
                   reqWaitId, popResult, hlsMsg, attemptsSent, sawPlaylists, envWS>>
    /\ UNCHANGED <<hlsVars, sessVars, outerVars>>

\* the backoff sleep is over: next iteration, or the loop ends with tries == 5
ReqBackoffDone ==
    /\ hlsPc = "backoff"
    /\ IF hlsTries < MaxHlsTries
       THEN /\ ReqEmit
            /\ attemptsSent' = attemptsSent + 1
            /\ popResult' = NoMsg
            /\ UNCHANGED <<hlsTries, hlsMsg, sawPlaylists>>
       ELSE /\ ReqFinish(NoMsg, hlsTries)
            /\ UNCHANGED <<hlsTries, sawPlaylists, sendVars, reqOwnId, attemptsSent,
                           popResult>>
    /\ UNCHANGED <<clockVars, mainVars, mapVars, reqWaitId, envWS>>
    /\ UNCHANGED <<hlsVars, sessVars, outerVars>>

(***************************************************************************)
(* FC2LiveDL.download: the recording session from the creation of its      *)
(* tasks on.  The reader task of the control session is the one above.     *)
(***************************************************************************)
\* external cancellations of download() in one session
MaxCancels == 2

Cancelled == [type |-> "CancelledError", code |-> 0]
OSError == [type |-> "OSError", code |-> 0]

\* the classes caught by "except FC2WebSocket.ServerDisconnection"
ServerDisconnectionTypes ==
    {"ServerDisconnection", "PaidProgramDisconnection", "LoginRequiredError",
     "MultipleConnectionError"}

\* the exceptions the except clauses of download() catch
Handled(exc) == exc.type \in {"CancelledError", "StreamEnded"} \cup ServerDisconnectionTypes

\* tasks = [asyncio.create_task(coro) for coro in coros], in this order
Tasks ==
    IF write_chat
    THEN <<"wait_disconnection", "_download_stream", "_download_chat">>
    ELSE <<"wait_disconnection", "_download_stream">>

TaskNames == {"wait_disconnection", "_download_stream", "_download_chat"}

\* task.done()
Done(t) == tState[t] \in {"returned", "failed", "cancelled"}

\* task.exception(), or what awaiting the task raises
TaskError(t) ==
    CASE tState[t] = "cancelled" -> Cancelled
      [] tState[t] = "failed" /\ t = "wait_disconnection" -> WaitDisconnection
      [] tState[t] = "failed" /\ t # "wait_disconnection" -> OSError
      [] OTHER -> NoError

\* the event loop runs callbacks in the order they were scheduled: a task that
\* was cancelled, or whose awaited task ended, before download() suspended
\* runs before download() runs again
AllDelivered ==
    /\ \A t \in TaskNames : ~tCancel[t]
    /\ ~(tState["wait_disconnection"] = "running" /\ mainPc \in {"done", "cancelled"})

\* why the session is ending, from the first thing that ended it
CauseOf(exc) ==
    CASE exc.type \in ServerDisconnectionTypes -> "ServerDisconnection"
      [] exc.type = "none" -> "task returned"
      [] OTHER -> exc.type

InitSession ==
    /\ write_chat \in BOOLEAN
    /\ remux \in BOOLEAN
    /\ tsExists \in BOOLEAN
    /\ keep_intermediates \in BOOLEAN
    /\ extract_audio \in BOOLEAN
    /\ muxedExists = FALSE
    /\ tsRemoved = FALSE
    /\ remuxInterrupted = FALSE
    /\ remuxRan = FALSE
    /\ dlPc = "wait"
    /\ dlExc = NoError
    /\ finIdx = 0
    \* open(fname, "wb") of _download_stream creates the file, or fails and the
    \* task logs the error and returns
    /\ tState = [t \in TaskNames |->
                   CASE t = "_download_chat" /\ ~write_chat -> "absent"
                     [] t = "_download_stream" /\ ~tsExists -> "returned"
                     [] OTHER -> "running"]
    /\ tCancel = [t \in TaskNames |-> FALSE]
    /\ cancelsLeft = MaxCancels
    /\ cause = "none"

\* no recording session, for the specifications of the other subsystems
SessionAtRest ==
    /\ write_chat = FALSE
    /\ remux = FALSE
    /\ tsExists = FALSE
    /\ keep_intermediates = FALSE
    /\ extract_audio = FALSE
    /\ muxedExists = FALSE
    /\ tsRemoved = FALSE
    /\ remuxInterrupted = FALSE
    /\ remuxRan = FALSE
    /\ dlPc = "idle"
    /\ dlExc = NoError
    /\ finIdx = 0
    /\ tState = [t \in TaskNames |-> "absent"]
    /\ tCancel = [t \in TaskNames |-> FALSE]
    /\ cancelsLeft = 0
    /\ cause = "none"

\* FC2WebSocket.__aexit__, up to the await of self._ws.close()
WsExit == mainPc' = IF mainPc \in {"recv", "hb_send"} THEN "cancelling" ELSE mainPc

\* the reader task ends with the CancelledError thrown into it
MainCancelled ==
    /\ mainPc = "cancelling"
    /\ mainPc' = "cancelled"
    /\ UNCHANGED <<clockVars, mainErr, endFrame, is_ready, handled, comments, sendVars, mapVars,
                   reqVars, envWS>>
    /\ UNCHANGED <<hlsVars, sessVars, outerVars>>

\* wait_disconnection: res = await self._task is over
DiscWakes ==
    /\ tState["wait_disconnection"] = "running"
    /\ ~tCancel["wait_disconnection"]
    /\ mainPc \in {"done", "cancelled"}
    /\ tState' = [tState EXCEPT !["wait_disconnection"] =
                    IF mainPc = "done" THEN "failed" ELSE "cancelled"]
    /\ UNCHANGED <<paramVars, fileVars, dlVars, tCancel, cancelsLeft, cause>>
    /\ UNCHANGED <<hlsVars, wsVars, outerVars>>

\* a cancellation reaches wait_disconnection: it is passed on to the reader
\* task it awaits, or, that task being over, ends wait_disconnection
DiscCancelDelivered ==
    /\ tCancel["wait_disconnection"]
    /\ tCancel' = [tCancel EXCEPT !["wait_disconnection"] = FALSE]
    /\ IF mainPc \in {"done", "cancelled"}
       THEN /\ tState' = [tState EXCEPT !["wait_disconnection"] = "cancelled"]
            /\ UNCHANGED mainPc
       ELSE /\ mainPc' = "cancelling"
            /\ UNCHANGED tState
    /\ UNCHANGED <<paramVars, fileVars, dlVars, cancelsLeft, cause>>
    /\ UNCHANGED <<clockVars, mainErr, endFrame, is_ready, handled, comments, sendVars, mapVars,
                   reqVars, envWS>>
    /\ UNCHANGED <<hlsVars, outerVars>>

\* _download_stream: an exception of the downloader or of out.write is logged
StreamFails ==
    /\ tState["_download_stream"] = "running"
    /\ ~tCancel["_download_stream"]
    /\ tState' = [tState EXCEPT !["_download_stream"] = "returned"]
    /\ UNCHANGED <<paramVars, fileVars, dlVars, tCancel, cancelsLeft, cause>>
    /\ UNCHANGED <<hlsVars, wsVars, outerVars>>

\* a cancellation reaches _download_stream: HLSDownloader.__aexit__ starts
\* (cancel and await the download task); a cancellation that arrives during
\* __aexit__ is caught by except asyncio.CancelledError
StreamCancelDelivered ==
    /\ tCancel["_download_stream"]
    /\ tCancel' = [tCancel EXCEPT !["_download_stream"] = FALSE]
    /\ tState' = [tState EXCEPT !["_download_stream"] =
                    IF @ = "running" THEN "cleanup" ELSE "returned"]
    /\ UNCHANGED <<paramVars, fileVars, dlVars, cancelsLeft, cause>>
    /\ UNCHANGED <<hlsVars, wsVars, outerVars>>

\* HLSDownloader.__aexit__ is over, except asyncio.CancelledError logs
StreamCleanupDone ==
    /\ tState["_download_stream"] = "cleanup"
    /\ ~tCancel["_download_stream"]
    /\ tState' = [tState EXCEPT !["_download_stream"] = "returned"]
    /\ UNCHANGED <<paramVars, fileVars, dlVars, tCancel, cancelsLeft, cause>>
    /\ UNCHANGED <<hlsVars, wsVars, outerVars>>

\* _download_chat: f.write raises
ChatFails ==
    /\ tState["_download_chat"] = "running"
    /\ ~tCancel["_download_chat"]
    /\ tState' = [tState EXCEPT !["_download_chat"] = "failed"]
    /\ UNCHANGED <<paramVars, fileVars, dlVars, tCancel, cancelsLeft, cause>>
    /\ UNCHANGED <<hlsVars, wsVars, outerVars>>

\* a cancellation reaches _download_chat, which catches nothing
ChatCancelDelivered ==
    /\ tCancel["_download_chat"]
    /\ tCancel' = [tCancel EXCEPT !["_download_chat"] = FALSE]
    /\ tState' = [tState EXCEPT !["_download_chat"] = "cancelled"]
    /\ UNCHANGED <<paramVars, fileVars, dlVars, cancelsLeft, cause>>
    /\ UNCHANGED <<hlsVars, wsVars, outerVars>>

\* the code after the finally block: exc propagates, or the remux step
AfterFinally(exc) ==
    /\ dlExc' = exc
    /\ finIdx' = 0
    /\ UNCHANGED tCancel
    /\ IF exc # NoError
       THEN /\ dlPc' = "raised"
            /\ UNCHANGED remuxRan
       ELSE IF remux /\ tsExists
            THEN /\ dlPc' = "remux"
                 /\ remuxRan' = TRUE
            ELSE /\ dlPc' = "returned"
                 /\ UNCHANGED remuxRan

\* finally: for task in tasks: if not task.done(): task.cancel(); await task
\* -- from tasks[i] on, up to the next await, exc being in flight
FinallyFrom(i, exc) ==
    LET rest == {j \in i..Len(Tasks) : ~Done(Tasks[j])} IN
    IF rest = {}
    THEN AfterFinally(exc)
    ELSE LET j == CHOOSE k \in rest : \A l \in rest : k <= l IN
         /\ tCancel' = [tCancel EXCEPT ![Tasks[j]] = TRUE]
         /\ dlPc' = "await_task"
         /\ finIdx' = j
         /\ dlExc' = exc
         /\ UNCHANGED remuxRan

\* the except clauses of download()
AfterExcept(exc) == IF Handled(exc) THEN NoError ELSE exc

\* asyncio.wait(tasks, FIRST_COMPLETED) returns: the pending tasks are
\* cancelled, the exception of one exited task is raised, and the async with
\* block of the control session is left
DlWaitReturns ==
    /\ dlPc = "wait"
    /\ \E exited \in {t \in TaskNames : Done(t)} :
         /\ dlExc' = TaskError(exited)
         /\ cause' = CauseOf(TaskError(exited))
    /\ tCancel' = [t \in TaskNames |-> tState[t] \in {"running", "cleanup"}]
    /\ WsExit
    /\ dlPc' = "closing"
    /\ UNCHANGED <<paramVars, fileVars, remuxRan, finIdx, tState, cancelsLeft>>
    /\ UNCHANGED <<clockVars, mainErr, endFrame, is_ready, handled, comments, sendVars, mapVars,
                   reqVars, envWS>>
    /\ UNCHANGED <<hlsVars, outerVars>>

\* self._ws.close() is over: the except clauses, then the finally block
DlCloseDone ==
    /\ dlPc = "closing"
    /\ AllDelivered
    /\ FinallyFrom(1, AfterExcept(dlExc))
    /\ UNCHANGED <<paramVars, fileVars, tState, cancelsLeft, cause>>
    /\ UNCHANGED <<hlsVars, wsVars, outerVars>>

\* await task in the finally block is over
DlAwaitDone ==
    /\ dlPc = "await_task"
    /\ Done(Tasks[finIdx])
    /\ AllDelivered
    /\ IF TaskError(Tasks[finIdx]) # NoError
       THEN /\ dlPc' = "raised"
            /\ dlExc' = TaskError(Tasks[finIdx])
            /\ UNCHANGED <<finIdx, tCancel, remuxRan>>
       ELSE FinallyFrom(finIdx + 1, dlExc)
    /\ UNCHANGED <<paramVars, fileVars, tState, cancelsLeft, cause>>
    /\ UNCHANGED <<hlsVars, wsVars, outerVars>>

\* a check that does not look for the muxed file
MayRemoveUnchecked(keep, muxed) == ~keep

\* not self.params["keep_intermediates"] and os.path.isfile(fname_muxed)
MayRemove(keep, muxed) == ~keep /\ muxed

\* the end of the remux step: os.remove(fname_stream), or not
RemoveIntermediates(muxed) ==
    /\ tsRemoved' = MayRemove(keep_intermediates, muxed)
    /\ dlPc' = "returned"

\* _remux_stream(channel_id, fname_stream, fname_muxed) is over: ffmpeg has
\* written the muxed file, or has not
DlRemuxDone ==
    /\ dlPc = "remux"
    /\ muxedExists' \in BOOLEAN
    /\ IF extract_audio
       THEN dlPc' = "extract_audio" /\ UNCHANGED tsRemoved
       ELSE RemoveIntermediates(muxedExists')
    /\ UNCHANGED <<paramVars, remuxInterrupted, remuxRan, dlExc, finIdx, tState, tCancel,
                   cancelsLeft, cause>>
    /\ UNCHANGED <<hlsVars, wsVars, outerVars>>

\* _remux_stream(..., fname_audio, extra_flags=["-vn"]) is over
DlExtractDone ==
    /\ dlPc = "extract_audio"
    /\ RemoveIntermediates(muxedExists)
    /\ UNCHANGED <<paramVars, muxedExists, remuxInterrupted, remuxRan, dlExc, finIdx,
                   tState, tCancel, cancelsLeft, cause>>
    /\ UNCHANGED <<hlsVars, wsVars, outerVars>>

\* the task that runs download() is cancelled (the supervisor cancels the task
\* of a channel that left the configuration, once per pass): CancelledError is
\* raised at the pending await, or, download() awaiting a task, the
\* cancellation is passed on to that task
ExternalCancel ==
    /\ cancelsLeft > 0
    /\ cancelsLeft' = cancelsLeft - 1
    /\ dlPc \in {"wait", "closing", "await_task", "remux", "extract_audio"}
    /\ cause' = IF cause = "none" THEN "cancel" ELSE cause
    /\ CASE dlPc = "wait" ->
              /\ dlExc' = Cancelled
              /\ WsExit
              /\ dlPc' = "closing"
              /\ UNCHANGED <<remuxRan, finIdx, tCancel>>
         [] dlPc = "closing" ->
              /\ AllDelivered
              /\ FinallyFrom(1, NoError)
              /\ UNCHANGED mainPc
         [] dlPc = "await_task" ->
              /\ IF Done(Tasks[finIdx])
                 THEN /\ AllDelivered
                      /\ dlPc' = "raised"
                      /\ dlExc' = Cancelled
                      /\ UNCHANGED tCancel
                 ELSE /\ tCancel' = [tCancel EXCEPT ![Tasks[finIdx]] = TRUE]
                      /\ UNCHANGED <<dlPc, dlExc>>
              /\ UNCHANGED <<remuxRan, finIdx, mainPc>>
         \* _remux_stream: the CancelledError is raised at an await of FFMpeg's
         \* __aenter__ or __aexit__, or the bare except of print_status takes
         \* it, the status loop ends and ffmpeg is stopped
         [] dlPc \in {"remux", "extract_audio"} ->
              /\ \/ dlPc' = "raised" /\ dlExc' = Cancelled
                 \/ UNCHANGED <<dlPc, dlExc>>
              /\ UNCHANGED <<remuxRan, finIdx, tCancel, mainPc>>
    /\ remuxInterrupted' = (remuxInterrupted \/ dlPc \in {"remux", "extract_audio"})
    /\ UNCHANGED <<paramVars, muxedExists, tsRemoved, tState>>
    /\ UNCHANGED <<clockVars, mainErr, endFrame, is_ready, handled, comments, sendVars, mapVars,
                   reqVars, envWS>>
    /\ UNCHANGED <<hlsVars, outerVars>>

(***************************************************************************)
(* FC2LiveDL: the mode of the stream and the choice of the playlist        *)
(* (_get_mode, _format_mode, _get_hls_url and what it calls)               *)
(***************************************************************************)
\* variants the "playlists" key of one response lists at most
MaxVariants == 2
\* variants each of the two other keys lists at most
MaxSideVariants == 1

\* the dicts, in their order: dict_search returns the first key with the value
STREAM_QUALITY ==
    << [name |-> "150Kbps", code |-> 10], [name |-> "400Kbps", code |-> 20],
       [name |-> "1.2Mbps", code |-> 30], [name |-> "2Mbps", code |-> 40],
       [name |-> "3Mbps", code |-> 50], [name |-> "sound", code |-> 90] >>

STREAM_LATENCY ==
    << [name |-> "low", code |-> 0], [name |-> "high", code |-> 1],
       [name |-> "mid", code |-> 2] >>

Qualities == {STREAM_QUALITY[i].name : i \in DOMAIN STREAM_QUALITY}
Latencies == {STREAM_LATENCY[i].name : i \in DOMAIN STREAM_LATENCY}

\* the modes the server offers in the model
ModeChoices == {10, 30, 52, 90}

\* the keys _merge_playlists looks for, in its order
PlaylistKeys == <<"playlists", "playlists_high_latency", "playlists_middle_latency">>

ValueError == "ValueError"
NoUrl == <<"none", 0>>
NotCalled == [url |-> NoUrl, mode |-> 0, raised |-> "not called"]
NoFormat == [quality |-> "", latency |-> ""]
FormatFailed == [quality |-> ValueError, latency |-> ValueError]

\* haystack[name]
CodeOf(haystack, name) ==
    haystack[CHOOSE i \in DOMAIN haystack : haystack[i].name = name].code

\* _get_mode
GetMode(q, l) == 0 + CodeOf(STREAM_QUALITY, q) + CodeOf(STREAM_LATENCY, l)

\* _format_mode.dict_search: list.index raises ValueError for a missing value
DictSearch(haystack, needle) ==
    LET found == {i \in DOMAIN haystack : haystack[i].code = needle}
    IN  IF found = {} THEN ValueError ELSE haystack[Min(found)].name

\* a _format_mode that takes the tens digit for the quality code
FormatModeTensDigit(m) ==
    LET l == DictSearch(STREAM_LATENCY, m % 10)
        q == DictSearch(STREAM_QUALITY, m \div 10)
    IN  IF l = ValueError \/ q = ValueError
        THEN FormatFailed
        ELSE [quality |-> q, latency |-> l]

\* _format_mode
FormatMode(m) ==
    LET l == DictSearch(STREAM_LATENCY, m % 10)
        q == DictSearch(STREAM_QUALITY, (m \div 10) * 10)
    IN  IF l = ValueError \/ q = ValueError
        THEN FormatFailed
        ELSE [quality |-> q, latency |-> l]

\* _merge_playlists
RECURSIVE MergeFrom(_, _)
MergeFrom(info, i) ==
    IF i > Len(PlaylistKeys)
    THEN <<>>
    ELSE (IF PlaylistKeys[i] \in DOMAIN info THEN info[PlaylistKeys[i]] ELSE <<>>)
         \o MergeFrom(info, i + 1)

MergePlaylists(info) == MergeFrom(info, 1)

\* a key_map without the branch for sound
KeyMapPlain(playlist) == playlist.mode

\* _sort_playlists.key_map
KeyMap(playlist) ==
    IF playlist.mode >= 90 THEN playlist.mode - 90 ELSE playlist.mode

\* sorted(..., reverse=True, key=key_map) is stable: an element goes behind
\* every element whose key is not smaller
InsertSorted(done, p) ==
    LET n == Cardinality({i \in DOMAIN done : KeyMap(done[i]) >= KeyMap(p)})
    IN  SubSeq(done, 1, n) \o <<p>> \o SubSeq(done, n + 1, Len(done))

RECURSIVE SortPlaylists(_)
SortPlaylists(merged) ==
    IF merged = <<>>
    THEN <<>>
    ELSE InsertSorted(SortPlaylists(SubSeq(merged, 1, Len(merged) - 1)),
                      merged[Len(merged)])

Max(S) == CHOOSE x \in S : \A y \in S : y <= x

\* a first loop that never matches
ExactMatchNever(sorted, m) == {}

\* the first loop of _get_playlist_or_best: the last playlist of the mode
ExactMatch(sorted, m) == {i \in DOMAIN sorted : sorted[i].mode = m}

\* a second loop that never matches
LatencyMatchNever(sorted, m) == {}

\* the second loop of _get_playlist_or_best: the playlists of the latency
LatencyMatch(sorted, m) ==
    {i \in DOMAIN sorted : FormatMode(sorted[i].mode).latency = FormatMode(m).latency}

\* _get_playlist_or_best
GetPlaylistOrBest(sorted, m) ==
    LET exact == ExactMatch(sorted, m)
        same == LatencyMatch(sorted, m)
        bad == {i \in DOMAIN sorted : FormatMode(sorted[i].mode) = FormatFailed}
        Found(i) == [url |-> sorted[i].url, mode |-> sorted[i].mode, raised |-> "none"]
        Raised(e) == [url |-> NoUrl, mode |-> 0, raised |-> e]
    IN  IF Len(sorted) = 0 THEN Raised("EmptyPlaylistException")
        ELSE IF exact # {} THEN Found(Max(exact))
        ELSE IF FormatMode(m) = FormatFailed THEN Raised(ValueError)
        ELSE IF bad # {} /\ (same = {} \/ Min(bad) < Min(same)) THEN Raised(ValueError)
        ELSE IF same # {} THEN Found(Min(same))
        ELSE Found(1)

\* the variants of one key: the url of a variant is its own
WithUrls(key, modes) ==
    [i \in 1..Len(modes) |-> [mode |-> modes[i], url |-> <<key, i>>]]

ModeLists(n) == UNION {[1..j -> ModeChoices] : j \in 0..n}

KeyCap(key) == IF key = "playlists" THEN MaxVariants ELSE MaxSideVariants

\* the parameters of a session and a response get_hls_information returned
\* (it returns only responses that have the key "playlists")
InitPlaylistChoice ==
    /\ quality \in Qualities
    /\ latency \in Latencies
    /\ \E S \in SUBSET {"playlists_high_latency", "playlists_middle_latency"} :
         \E f \in [S \cup {"playlists"} -> ModeLists(MaxVariants)] :
            /\ \A k \in DOMAIN f : Len(f[k]) <= KeyCap(k)
            /\ hls_info = [k \in DOMAIN f |-> WithUrls(k, f[k])]
    /\ selPc = "start"
    /\ mode = 0
    /\ p_merged = <<>>
    /\ p_sorted = <<>>
    /\ got = NotCalled
    /\ formatted = [requested |-> NoFormat, available |-> NoFormat]

SelAtRest ==
    /\ quality = "3Mbps"
    /\ latency = "mid"
    /\ hls_info = [k \in {"playlists"} |-> <<>>]
    /\ selPc = "idle"
    /\ mode = 0
    /\ p_merged = <<>>
    /\ p_sorted = <<>>
    /\ got = NotCalled
    /\ formatted = [requested |-> NoFormat, available |-> NoFormat]

CoreAtRest == HLSAtRest /\ WSAtRest /\ SessionAtRest

\* mode = self._get_mode()
SelGetMode ==
    /\ selPc = "start"
    /\ mode' = GetMode(quality, latency)
    /\ selPc' = "hls_info"
    /\ UNCHANGED <<quality, latency, hls_info, p_merged, p_sorted, got, formatted>>
    /\ UNCHANGED <<coreVars, metVars, supVars, startVars, nameVars, waitVars>>

\* hls_url, got_mode = self._get_hls_url(hls_info, mode)
SelGetHlsUrl ==
    /\ selPc = "hls_info"
    /\ p_merged' = MergePlaylists(hls_info)
    /\ p_sorted' = SortPlaylists(p_merged')
    /\ got' = GetPlaylistOrBest(p_sorted', mode)
    /\ selPc' = IF got'.raised = "none" THEN "callback" ELSE "raised"
    /\ UNCHANGED <<quality, latency, hls_info, mode, formatted>>
    /\ UNCHANGED <<coreVars, metVars, supVars, startVars, nameVars, waitVars>>

\* the arguments of the GOT_HLS_URL callback
SelFormat ==
    /\ selPc = "callback"
    /\ formatted' = [requested |-> FormatMode(mode), available |-> FormatMode(got.mode)]
    /\ selPc' = IF FormatFailed \in {formatted'.requested, formatted'.available}
                THEN "raised"
                ELSE "done"
    /\ UNCHANGED <<quality, latency, hls_info, mode, p_merged, p_sorted, got>>
    /\ UNCHANGED <<coreVars, metVars, supVars, startVars, nameVars, waitVars>>

NextSelect == SelGetMode \/ SelGetHlsUrl \/ SelFormat

(***************************************************************************)
(* autofc2.Metrics                                                         *)
(***************************************************************************)
\* the channel ids of the model
ChannelIds == {"X", "Y", "Z"}

\* the values of CallbackEvent.Type are 1..NumEventTypes
NumEventTypes == 6
EventTypes == 1..NumEventTypes
WAITING_FOR_ONLINE == 1
STREAM_ONLINE == 2
WAITING_FOR_TARGET_QUALITY == 3
GOT_HLS_URL == 4
FRAGMENT_PROGRESS == 5
MUXING == 6

\* the largest fragments_downloaded and total_size of a FRAGMENT_PROGRESS event
MaxProgress == 2

\* Metrics._reset: event_type 0 equals no member of CallbackEvent.Type
ResetMetrics == [event_type |-> 0, fragments_downloaded |-> 0, total_downloaded |-> 0]

\* a promstr whose gauge of a type is 1 for every type up to the last one
GaugeUpTo(m, typ) == IF m.event_type >= typ THEN 1 ELSE 0

\* Metrics.promstr: val = 1 if metrics["event_type"] == typ else 0
Gauge(m, typ) == IF m.event_type = typ THEN 1 ELSE 0

\* Metrics.promstr: the series of the exposition, per channel
Promstr ==
    [c \in DOMAIN channel_metrics |->
       [event |-> [typ \in EventTypes |-> Gauge(channel_metrics[c], typ)],
        fragments_downloaded |-> channel_metrics[c].fragments_downloaded,
        bytes_downloaded |-> channel_metrics[c].total_downloaded]]

\* Metrics() of AutoFC2.__init__
InitMetrics ==
    /\ channel_metrics = [c \in {} |-> ResetMetrics]
    /\ lastEvent = [c \in ChannelIds |-> 0]

MetricsAtRest == InitMetrics

\* a store that writes the value to the entry of every channel
SetMetricsShared(c, value) ==
    [d \in DOMAIN channel_metrics \cup {c} |-> value]

\* _channel_metrics[channel_id] = value
SetMetrics(c, value) ==
    [d \in DOMAIN channel_metrics \cup {c} |-> IF d = c THEN value ELSE channel_metrics[d]]

\* await self.metrics.reset(channel_id) of handle_channel
ResetFor(c) ==
    /\ channel_metrics' = SetMetrics(c, ResetMetrics)
    /\ lastEvent' = [lastEvent EXCEPT ![c] = 0]

\* Metrics.reset, called by handle_channel before fc2.download
MetricsReset(c) ==
    /\ channel_metrics' = SetMetrics(c, ResetMetrics)
    /\ lastEvent' = [lastEvent EXCEPT ![c] = 0]
    /\ UNCHANGED <<coreVars, selVars, supVars, startVars, nameVars, waitVars>>

\* Metrics.update, called by handle_event for every event of a session
MetricsUpdate(c, typ, data) ==
    /\ LET old == IF c \in DOMAIN channel_metrics THEN channel_metrics[c] ELSE ResetMetrics
       IN  channel_metrics' =
             SetMetrics(c, IF typ = FRAGMENT_PROGRESS
                           THEN [event_type |-> typ,
                                 fragments_downloaded |-> data.fragments_downloaded,
                                 total_downloaded |-> data.total_size]
                           ELSE [old EXCEPT !.event_type = typ])
    /\ lastEvent' = [lastEvent EXCEPT ![c] = typ]
    /\ UNCHANGED <<coreVars, selVars, supVars, startVars, nameVars, waitVars>>

\* the sessions of two channels report; only a FRAGMENT_PROGRESS event carries
\* the two counters
NextMetrics ==
    \E c \in {"X", "Y"} :
       \/ MetricsReset(c)
       \/ \E typ \in EventTypes \ {FRAGMENT_PROGRESS} :
            MetricsUpdate(c, typ, [fragments_downloaded |-> 0, total_size |-> 0])
       \/ \E data \in [fragments_downloaded : 1..MaxProgress, total_size : 0..MaxProgress] :
            MetricsUpdate(c, FRAGMENT_PROGRESS, data)

(***************************************************************************)
(* AutoFC2: the supervisor (_main, reload_channels_list, handle_channel,   *)
(* debounce_channel, get_config) and the configuration file                *)
(***************************************************************************)
\* seconds the model follows the supervisor for
SupHorizon == 3
\* passes of the loop of _main within one second
MaxSpins == 3
\* edits of the configuration file
MaxEdits == 2
\* the debounce_time of a configuration that has one
DebounceTime == 2

NoConfig == [channels |-> {}, debounce_time |-> 0 - 1]
Unreadable == [ok |-> FALSE, doc |-> NoConfig]
Readable(channels, debounce) ==
    [ok |-> TRUE, doc |-> [channels |-> channels, debounce_time |-> debounce]]
NoCall == [ok |-> TRUE, before |-> NoConfig, raised |-> FALSE, returned |-> NoConfig]
NoEdit == [at |-> 0, from |-> {}, to |-> Unreadable, fresh |-> {}]
NoSleep == [wake |-> 0, asked |-> 0, duration |-> 0]

\* a get_config that assigns before it has parsed the file
GetConfigForgets(file, last) ==
    IF file.ok
    THEN [raised |-> FALSE, last |-> file.doc]
    ELSE [raised |-> TRUE, last |-> NoConfig]

\* get_config: last_valid_config is assigned only when json.load returned
GetConfig(file, last) ==
    IF file.ok
    THEN [raised |-> FALSE, last |-> file.doc]
    ELSE IF last = NoConfig
         THEN [raised |-> TRUE, last |-> NoConfig]
         ELSE [raised |-> FALSE, last |-> last]

\* what a call of get_config leaves behind
CallOf(cfg) ==
    [ok |-> fileDoc.ok, before |-> last_valid_config, raised |-> cfg.raised,
     returned |-> cfg.last]

\* a loop that replaces the task of every channel
MayRestartAlways(pc) == pc # "absent"

\* _main: if tasks[channel].done()
MayRestart(pc) == pc = "done"

\* a wait_for_debounce that never sleeps
DebounceDueNever(diff, duration) == FALSE

\* wait_for_debounce: if diff < duration
DebounceDue(diff, duration) == diff < duration

\* a loop that sleeps three seconds
LoopSleepLong == 1 + 2

\* _main: asyncio.sleep(1)
LoopSleep == 1

\* the last two starts of fc2.download of a channel
Remember(log, entry) ==
    IF Len(log) < 2 THEN Append(log, entry) ELSE <<log[2], entry>>

HasKey(c) == taskPc[c] # "absent"

\* the sections the file may have
SectionKeys == {"log_level", "metrics"}
NoSection == [present |-> FALSE, keys |-> {}]
Section(keys) == [present |-> TRUE, keys |-> keys]
Autofc2Sections == {NoSection} \cup {Section(keys) : keys \in SUBSET SectionKeys}

\* config_watcher: config["autofc2"]["log_level"] of a section without the key
WatcherKeyError(section) == section.present /\ "log_level" \notin section.keys

\* metrics_webserver: "autofc2" not in config or "metrics" not in config["autofc2"]
MetricsStalls(section) == ~section.present \/ "metrics" \notin section.keys

\* a task of task_arr other than the sleep and the channels is done
ServiceDone == watcherPc = "done" \/ metricsPc = "done"

\* asyncio.wait(task_arr, FIRST_COMPLETED) of _main returns
LoopWakes ==
    \/ supNow >= sleepAt
    \/ \E c \in ChannelIds : taskPc[c] = "done"
    \/ ServiceDone

\* a task that was created runs before the task that created it runs again
NewTasksRan == \A c \in ChannelIds : taskPc[c] \notin {"noop", "created"}

InitSupervisor ==
    /\ supNow = StartTime
    /\ last_valid_config = NoConfig
    /\ editsLeft = MaxEdits
    /\ supPc = "start"
    /\ sleepAt = 0
    /\ spins = 0
    /\ taskPc = [c \in ChannelIds |-> "absent"]
    /\ sleepInfo = [c \in ChannelIds |-> NoSleep]
    /\ last_startup_time = [c \in ChannelIds |-> 0]
    /\ starts = [c \in ChannelIds |-> <<>>]
    /\ live = [c \in ChannelIds |-> 0]
    /\ cancelledAt = [c \in ChannelIds |-> 0]
    /\ reloaded = {}
    /\ cfgCall = NoCall
    /\ edit = NoEdit
    /\ watcherPc = "running"
    /\ metricsPc = "created"

SupAtRest ==
    /\ InitSupervisor
    /\ autofc2 = NoSection
    /\ fileDoc = Unreadable
    /\ docChoices = {}

\* time passes; what is ready to run runs first, and a sleep ends on time
SupTick ==
    /\ supNow < StartTime + SupHorizon
    /\ supPc = "waiting"
    /\ NewTasksRan
    /\ metricsPc # "created"
    /\ \A c \in ChannelIds : taskPc[c] = "debounce" => supNow < sleepInfo[c].wake
    /\ spins < MaxSpins => ~LoopWakes
    /\ supNow' = supNow + 1
    /\ spins' = 0
    /\ UNCHANGED <<fileDoc, docChoices, last_valid_config, editsLeft, supPc, sleepAt,
                   taskPc, sleepInfo, last_startup_time, starts, live, cancelledAt,
                   reloaded, cfgCall, edit>>
    /\ UNCHANGED svcVars
    /\ UNCHANGED <<coreVars, selVars, metVars, startVars, nameVars, waitVars>>

\* one pass of the loop of _main, from reload_channels_list to asyncio.wait;
\* the first load of the configuration failing, _main raises
SupIterate ==
    /\ supPc = "start" \/ (supPc = "waiting" /\ LoopWakes /\ metricsPc # "created")
    /\ spins < MaxSpins
    /\ NewTasksRan
    /\ LET cfg == GetConfig(fileDoc, last_valid_config)
           channels == cfg.last.channels
       IN  /\ cfgCall' = CallOf(cfg)
           /\ last_valid_config' = cfg.last
           /\ IF cfg.raised
              THEN /\ supPc' = "crashed"
                   /\ UNCHANGED <<sleepAt, spins, taskPc, live, cancelledAt, reloaded>>
              ELSE /\ supPc' = "waiting"
                   /\ sleepAt' = supNow + LoopSleep
                   /\ spins' = spins + 1
                   /\ reloaded' = channels
                   /\ cancelledAt' =
                        [c \in ChannelIds |->
                           IF HasKey(c) /\ c \notin channels THEN supNow ELSE cancelledAt[c]]
                   /\ taskPc' =
                        [c \in ChannelIds |->
                           CASE ~HasKey(c) -> IF c \in channels THEN "noop" ELSE "absent"
                             [] HasKey(c) /\ MayRestart(taskPc[c]) -> "created"
                             [] HasKey(c) /\ ~MayRestart(taskPc[c]) /\ c \notin channels ->
                                  "stopping"
                             [] OTHER -> taskPc[c]]
                   /\ live' =
                        [c \in ChannelIds |->
                           IF HasKey(c) /\ MayRestart(taskPc[c]) THEN live[c] + 1 ELSE live[c]]
    /\ UNCHANGED <<supNow, fileDoc, docChoices, editsLeft, sleepInfo, last_startup_time,
                   starts, edit>>
    /\ UNCHANGED svcVars
    /\ UNCHANGED <<coreVars, selVars, metVars, startVars, nameVars, waitVars>>

\* the placeholder task of reload_channels_list runs noop()
NoopRuns(c) ==
    /\ taskPc[c] = "noop"
    /\ taskPc' = [taskPc EXCEPT ![c] = "done"]
    /\ UNCHANGED <<supNow, fileDoc, docChoices, last_valid_config, editsLeft, supPc,
                   sleepAt, spins, sleepInfo, last_startup_time, starts, live,
                   cancelledAt, reloaded, cfgCall, edit>>
    /\ UNCHANGED svcVars
    /\ UNCHANGED <<coreVars, selVars, metVars, startVars, nameVars, waitVars>>

\* handle_channel up to its first suspension: get_channel_params raises
\* KeyError for a channel that left the configuration; debounce_channel
\* sleeps, or falls through to metrics.reset and fc2.download
TaskBegin(c) ==
    /\ taskPc[c] = "created"
    /\ LET cfg == GetConfig(fileDoc, last_valid_config)
           duration == cfg.last.debounce_time
           diff == supNow - last_startup_time[c]
       IN  /\ cfgCall' = CallOf(cfg)
           /\ last_valid_config' = cfg.last
           /\ IF c \notin cfg.last.channels
              THEN /\ taskPc' = [taskPc EXCEPT ![c] = "done"]
                   /\ live' = [live EXCEPT ![c] = live[c] - 1]
                   /\ UNCHANGED <<sleepInfo, last_startup_time, starts, metVars>>
              ELSE IF duration > 0 /\ DebounceDue(diff, duration)
              THEN /\ taskPc' = [taskPc EXCEPT ![c] = "debounce"]
                   /\ sleepInfo' = [sleepInfo EXCEPT ![c] =
                                      [wake |-> supNow + (duration - diff),
                                       asked |-> supNow, duration |-> duration]]
                   /\ UNCHANGED <<last_startup_time, starts, live, metVars>>
              ELSE /\ taskPc' = [taskPc EXCEPT ![c] = "download"]
                   /\ ResetFor(c)
                   /\ last_startup_time' =
                        IF duration > 0
                        THEN [last_startup_time EXCEPT ![c] = supNow]
                        ELSE last_startup_time
                   /\ starts' = [starts EXCEPT ![c] =
                                   Remember(starts[c], [at |-> supNow, asked |-> supNow,
                                                        debounce |-> duration])]
                   /\ UNCHANGED <<sleepInfo, live>>
    /\ UNCHANGED <<supNow, fileDoc, docChoices, editsLeft, supPc, sleepAt, spins,
                   cancelledAt, reloaded, edit>>
    /\ UNCHANGED svcVars
    /\ UNCHANGED <<coreVars, selVars, startVars, nameVars, waitVars>>

\* wait_for_debounce after its sleep, then metrics.reset and fc2.download
DebounceDone(c) ==
    /\ taskPc[c] = "debounce"
    /\ supNow >= sleepInfo[c].wake
    /\ taskPc' = [taskPc EXCEPT ![c] = "download"]
    /\ last_startup_time' = [last_startup_time EXCEPT ![c] = supNow]
    /\ starts' = [starts EXCEPT ![c] =
                    Remember(starts[c], [at |-> supNow, asked |-> sleepInfo[c].asked,
                                         debounce |-> sleepInfo[c].duration])]
    /\ sleepInfo' = [sleepInfo EXCEPT ![c] = NoSleep]
    /\ ResetFor(c)
    /\ UNCHANGED <<supNow, fileDoc, docChoices, last_valid_config, editsLeft, supPc,
                   sleepAt, spins, live, cancelledAt, reloaded, cfgCall, edit>>
    /\ UNCHANGED svcVars
    /\ UNCHANGED <<coreVars, selVars, startVars, nameVars, waitVars>>

\* fc2.download returns or raises, and handle_channel with it
SessionEnds(c) ==
    /\ taskPc[c] = "download"
    /\ taskPc' = [taskPc EXCEPT ![c] = "done"]
    /\ live' = [live EXCEPT ![c] = live[c] - 1]
    /\ UNCHANGED <<supNow, fileDoc, docChoices, last_valid_config, editsLeft, supPc,
                   sleepAt, spins, sleepInfo, last_startup_time, starts, cancelledAt,
                   reloaded, cfgCall, edit>>
    /\ UNCHANGED svcVars
    /\ UNCHANGED <<coreVars, selVars, metVars, startVars, nameVars, waitVars>>

\* a cancelled task of handle_channel ends: the sleep of the debounce raises
\* CancelledError, or download() has caught it and has finished
StopDone(c) ==
    /\ taskPc[c] = "stopping"
    /\ taskPc' = [taskPc EXCEPT ![c] = "done"]
    /\ live' = [live EXCEPT ![c] = live[c] - 1]
    /\ sleepInfo' = [sleepInfo EXCEPT ![c] = NoSleep]
    /\ UNCHANGED <<supNow, fileDoc, docChoices, last_valid_config, editsLeft, supPc,
                   sleepAt, spins, last_startup_time, starts, cancelledAt, reloaded,
                   cfgCall, edit>>
    /\ UNCHANGED svcVars
    /\ UNCHANGED <<coreVars, selVars, metVars, startVars, nameVars, waitVars>>

\* the user saves another configuration file, or one that does not parse
EditConfig ==
    /\ supPc = "waiting"
    /\ NewTasksRan
    /\ editsLeft > 0
    /\ editsLeft' = editsLeft - 1
    /\ \E doc \in docChoices \ {fileDoc} :
          /\ fileDoc' = doc
          /\ edit' = [at |-> supNow, from |-> reloaded, to |-> doc,
                      fresh |-> {c \in ChannelIds : ~HasKey(c)}]
    /\ UNCHANGED <<supNow, docChoices, last_valid_config, supPc, sleepAt, spins, taskPc,
                   sleepInfo, last_startup_time, starts, live, cancelledAt, reloaded,
                   cfgCall>>
    /\ UNCHANGED svcVars
    /\ UNCHANGED <<coreVars, selVars, metVars, startVars, nameVars, waitVars>>

\* config_watcher after its sleep: config = self.get_config(), then
\* config["autofc2"]["log_level"]; a KeyError ends the task
WatcherReads ==
    /\ supPc = "waiting"
    /\ NewTasksRan
    /\ watcherPc = "running"
    /\ LET cfg == GetConfig(fileDoc, last_valid_config)
       IN  /\ cfgCall' = CallOf(cfg)
           /\ last_valid_config' = cfg.last
    /\ watcherPc' = IF WatcherKeyError(autofc2) THEN "done" ELSE "running"
    /\ UNCHANGED <<supNow, fileDoc, docChoices, editsLeft, supPc, sleepAt, spins, taskPc,
                   sleepInfo, last_startup_time, starts, live, cancelledAt, reloaded,
                   edit, autofc2, metricsPc>>
    /\ UNCHANGED <<coreVars, selVars, metVars, startVars, nameVars, waitVars>>

\* the events a session reports once it downloads
ReportedTypes == {FRAGMENT_PROGRESS, MUXING}

\* handle_event of a running session of the channel: metrics.update(event);
\* a FRAGMENT_PROGRESS event carries the counters of the session, one
\* fragment more than the last one
ChannelReports(c, typ) ==
    /\ taskPc[c] \in {"download", "stopping"}
    /\ c \in DOMAIN channel_metrics
    /\ channel_metrics[c].fragments_downloaded < MaxProgress
    /\ MetricsUpdate(c, typ,
                     [fragments_downloaded |-> channel_metrics[c].fragments_downloaded + 1,
                      total_size |-> channel_metrics[c].total_downloaded + 1])

\* metrics_webserver, run when _main first waits: it awaits a Future nobody
\* resolves, or it returns (or raises) once http_server has started the site
MetricsServerRuns ==
    /\ supPc = "waiting"
    /\ metricsPc = "created"
    /\ LET cfg == GetConfig(fileDoc, last_valid_config)
       IN  /\ cfgCall' = CallOf(cfg)
           /\ last_valid_config' = cfg.last
    /\ metricsPc' = IF MetricsStalls(autofc2) THEN "stalled" ELSE "done"
    /\ UNCHANGED <<supNow, fileDoc, docChoices, editsLeft, supPc, sleepAt, spins, taskPc,
                   sleepInfo, last_startup_time, starts, live, cancelledAt, reloaded,
                   edit, autofc2, watcherPc>>
    /\ UNCHANGED <<coreVars, selVars, metVars, startVars, nameVars, waitVars>>

(***************************************************************************)
(* FC2LiveDL.download: from the call to the opening of the control         *)
(* session, with FC2LiveStream (is_online, wait_for_online, get_meta,      *)
(* get_websocket_url)                                                      *)
(***************************************************************************)
\* probes of the member API in one session
MaxProbes == 3
\* times the channel goes on or off the air
MaxToggles == 2

NoMeta == 0 - 1
NotOnlineException == [type |-> "NotOnlineException", code |-> 0]
FileNotFoundError == [type |-> "FileNotFoundError", code |-> 0]

\* an is_online that takes every answer of the API for a broadcast
IsOnlineAlways(is_publish_value) == is_publish_value >= 0

\* is_online: meta["channel_data"]["is_publish"] > 0
IsOnline(is_publish_value) == is_publish_value > 0

InitStartup ==
    /\ wait_for_live \in BOOLEAN
    /\ write_info_json \in BOOLEAN
    /\ ffmpegOk \in BOOLEAN
    /\ is_publish \in {0, 1}
    /\ meta = NoMeta
    /\ probeLog = <<>>
    /\ steps = {}
    /\ events = <<>>
    /\ togglesLeft = MaxToggles

StartAtRest ==
    /\ wait_for_live = FALSE
    /\ write_info_json = FALSE
    /\ ffmpegOk = TRUE
    /\ is_publish = 0
    /\ meta = NoMeta
    /\ probeLog = <<>>
    /\ steps = {}
    /\ events = <<>>
    /\ togglesLeft = 0

\* download() has been called and no task of the session exists yet
InitCalled ==
    /\ write_chat \in BOOLEAN
    /\ remux \in BOOLEAN
    /\ tsExists = FALSE
    /\ keep_intermediates = FALSE
    /\ extract_audio = FALSE
    /\ muxedExists = FALSE
    /\ tsRemoved = FALSE
    /\ remuxInterrupted = FALSE
    /\ remuxRan = FALSE
    /\ dlPc = "start"
    /\ dlExc = NoError
    /\ finIdx = 0
    /\ tState = [t \in TaskNames |-> "absent"]
    /\ tCancel = [t \in TaskNames |-> FALSE]
    /\ cancelsLeft = 0
    /\ cause = "none"

\* the streamer starts or stops the broadcast
ChannelToggles ==
    /\ togglesLeft > 0
    /\ togglesLeft' = togglesLeft - 1
    /\ is_publish' = 1 - is_publish
    /\ UNCHANGED <<wait_for_live, write_info_json, ffmpegOk, meta, probeLog, steps, events>>
    /\ UNCHANGED <<coreVars, selVars, metVars, supVars, nameVars, waitVars>>

\* get_meta(refetch=True): the answer replaces the cached record
Refetch ==
    /\ meta' = is_publish
    /\ probeLog' = Append(probeLog, is_publish)

\* download(): the check for ffmpeg, before the try
DlCheckFfmpeg ==
    /\ dlPc = "start"
    /\ IF ~ffmpegOk /\ remux
       THEN dlPc' = "raised" /\ dlExc' = FileNotFoundError
       ELSE dlPc' = "is_online" /\ UNCHANGED dlExc
    /\ UNCHANGED <<paramVars, fileVars, remuxRan, finIdx, tState, tCancel, cancelsLeft, cause>>
    /\ UNCHANGED <<wait_for_live, write_info_json, ffmpegOk, is_publish, meta, probeLog,
                   steps, events, togglesLeft>>
    /\ UNCHANGED <<hlsVars, wsVars, selVars, metVars, supVars, nameVars, waitVars>>

\* is_online = await live.is_online(); NotOnlineException is caught by no
\* except clause of download() and the finally block finds no task
DlIsOnline ==
    /\ dlPc = "is_online"
    /\ Refetch
    /\ IF IsOnline(meta')
       THEN dlPc' = "get_meta" /\ UNCHANGED <<dlExc, events>>
       ELSE IF ~wait_for_live
       THEN dlPc' = "raised" /\ dlExc' = NotOnlineException /\ UNCHANGED events
       ELSE /\ dlPc' = "wait_for_online"
            /\ events' = Append(events, "WAITING_FOR_ONLINE")
            /\ UNCHANGED dlExc
    /\ UNCHANGED <<paramVars, fileVars, remuxRan, finIdx, tState, tCancel, cancelsLeft, cause>>
    /\ UNCHANGED <<wait_for_live, write_info_json, ffmpegOk, is_publish, steps, togglesLeft>>
    /\ UNCHANGED <<hlsVars, wsVars, selVars, metVars, supVars, nameVars, waitVars>>

\* wait_for_online: one more is_online() after the sleeps of the interval
DlWaitProbe ==
    /\ dlPc = "wait_for_online"
    /\ Len(probeLog) < MaxProbes
    /\ Refetch
    /\ dlPc' = IF IsOnline(meta') THEN "get_meta" ELSE "wait_for_online"
    /\ UNCHANGED <<paramVars, fileVars, remuxRan, dlExc, finIdx, tState, tCancel, cancelsLeft, cause>>
    /\ UNCHANGED <<wait_for_live, write_info_json, ffmpegOk, is_publish, steps, events,
                   togglesLeft>>
    /\ UNCHANGED <<hlsVars, wsVars, selVars, metVars, supVars, nameVars, waitVars>>

\* get_meta(refetch=False), the STREAM_ONLINE callback, the _prepare_file
\* calls and the info json
DlPrepare ==
    /\ dlPc = "get_meta"
    /\ events' = Append(events, "STREAM_ONLINE")
    /\ steps' = steps \cup {"paths"} \cup (IF write_info_json THEN {"info_json"} ELSE {})
    /\ dlPc' = "ws_url"
    /\ UNCHANGED <<paramVars, fileVars, remuxRan, dlExc, finIdx, tState, tCancel, cancelsLeft, cause>>
    /\ UNCHANGED <<wait_for_live, write_info_json, ffmpegOk, is_publish, meta, probeLog,
                   togglesLeft>>
    /\ UNCHANGED <<hlsVars, wsVars, selVars, metVars, supVars, nameVars, waitVars>>

\* get_websocket_url: is_online(refetch=False) reads the cached record, then
\* getControlServer is asked for the url
DlWebsocketUrl ==
    /\ dlPc = "ws_url"
    /\ IF IsOnline(meta)
       THEN /\ steps' = steps \cup {"ws_url"}
            /\ dlPc' = "ws_connect"
            /\ UNCHANGED dlExc
       ELSE /\ dlPc' = "raised"
            /\ dlExc' = NotOnlineException
            /\ UNCHANGED steps
    /\ UNCHANGED <<paramVars, fileVars, remuxRan, finIdx, tState, tCancel, cancelsLeft, cause>>
    /\ UNCHANGED <<wait_for_live, write_info_json, ffmpegOk, is_publish, meta, probeLog,
                   events, togglesLeft>>
    /\ UNCHANGED <<hlsVars, wsVars, selVars, metVars, supVars, nameVars, waitVars>>

\* async with FC2WebSocket(...): the control session is open, and download()
\* goes on to choose the playlist and to create the tasks
DlConnect ==
    /\ dlPc = "ws_connect"
    /\ steps' = steps \cup {"control_session"}
    /\ dlPc' = "quality"
    /\ UNCHANGED <<paramVars, fileVars, remuxRan, dlExc, finIdx, tState, tCancel, cancelsLeft, cause>>
    /\ UNCHANGED <<wait_for_live, write_info_json, ffmpegOk, is_publish, meta, probeLog,
                   events, togglesLeft>>
    /\ UNCHANGED <<hlsVars, wsVars, selVars, metVars, supVars, nameVars, waitVars>>

NextStart ==
    \/ ChannelToggles
    \/ DlCheckFfmpeg \/ DlIsOnline \/ DlWaitProbe \/ DlPrepare \/ DlWebsocketUrl
    \/ DlConnect

(***************************************************************************)
(* util.sanitize_filename: a string is the sequence of its characters      *)
(***************************************************************************)
\* characters of an input at most
MaxNameLen == 4

\* the characters of the inputs: letters of a reserved name in both cases, a
\* dot, a blank, a forbidden character and a control character
Alphabet == {"C", "O", "N", "n", ".", " ", "/", "x01"}

Forbidden == {"\\", "/", ":", "*", "?", "\"", "<", ">", "|"}
ControlChars == {"x01"}
Whitespace == {" "}
NoName == <<"none">>

\* badnames, in the order of the source
BadNames ==
    << <<"C", "O", "N">>,
       <<"P", "R", "N">>,
       <<"A", "U", "X">>,
       <<"N", "U", "L">>,
       <<"C", "O", "M", "1">>,
       <<"C", "O", "M", "2">>,
       <<"C", "O", "M", "3">>,
       <<"C", "O", "M", "4">>,
       <<"C", "O", "M", "5">>,
       <<"C", "O", "M", "6">>,
       <<"C", "O", "M", "7">>,
       <<"C", "O", "M", "8">>,
       <<"C", "O", "M", "9">>,
       <<"L", "P", "T", "1">>,
       <<"L", "P", "T", "2">>,
       <<"L", "P", "T", "3">>,
       <<"L", "P", "T", "4">>,
       <<"L", "P", "T", "5">>,
       <<"L", "P", "T", "6">>,
       <<"L", "P", "T", "7">>,
       <<"L", "P", "T", "8">>,
       <<"L", "P", "T", "9">> >>

\* re.sub(r"[\\/:*?\"<>|]+", "_", fname): each run becomes one underscore
RECURSIVE ReplaceForbidden(_)
ReplaceForbidden(s) ==
    IF s = <<>> THEN <<>>
    ELSE IF Head(s) \in Forbidden
    THEN IF Len(s) > 1 /\ s[2] \in Forbidden
         THEN ReplaceForbidden(Tail(s))
         ELSE <<"_">> \o ReplaceForbidden(Tail(s))
    ELSE <<Head(s)>> \o ReplaceForbidden(Tail(s))

\* re.sub(r"[\x00-\x1f\x7f]", "", fname)
IsPrintable(c) == c \notin ControlChars
RemoveControl(s) == SelectSeq(s, IsPrintable)

\* str.strip(chars)
RECURSIVE LStrip(_, _)
LStrip(s, chars) ==
    IF s # <<>> /\ Head(s) \in chars THEN LStrip(Tail(s), chars) ELSE s

RECURSIVE RStrip(_, _)
RStrip(s, chars) ==
    IF s # <<>> /\ s[Len(s)] \in chars THEN RStrip(SubSeq(s, 1, Len(s) - 1), chars) ELSE s

Strip(s, chars) == RStrip(LStrip(s, chars), chars)

\* str.upper()
UpperChar(c) == IF c = "n" THEN "N" ELSE c
Upper(s) == [i \in DOMAIN s |-> UpperChar(s[i])]

\* str.startswith
StartsWith(s, prefix) ==
    Len(s) >= Len(prefix) /\ SubSeq(s, 1, Len(prefix)) = prefix

\* for badname in badnames: ... fname = "_" + fname, fup being computed once
RECURSIVE PrefixBadNames(_, _, _)
PrefixBadNames(fname, fup, i) ==
    IF i > Len(BadNames) THEN fname
    ELSE IF fup = BadNames[i] \/ StartsWith(fup, BadNames[i] \o <<".">>)
    THEN PrefixBadNames(<<"_">> \o fname, fup, i + 1)
    ELSE PrefixBadNames(fname, fup, i + 1)

\* fname.strip(".")
StripDots(s) == Strip(s, {"."})

\* sanitize_filename
SanitizeFilename(s) ==
    LET replaced == ReplaceForbidden(s)
        printable == RemoveControl(replaced)
        stripped == Strip(printable, Whitespace)
        dotless == StripDots(stripped)
    IN  PrefixBadNames(dotless, Upper(dotless), 1)

Names == UNION {[1..n -> Alphabet] : n \in 0..MaxNameLen}

InitSanitize ==
    /\ fname_in \in Names
    /\ sanPc = "start"
    /\ sanitized = NoName
    /\ resanitized = NoName

SanitizeAtRest ==
    /\ fname_in = <<>>
    /\ sanPc = "idle"
    /\ sanitized = NoName
    /\ resanitized = NoName

\* sanitize_filename(s)
SanitizeOnce ==
    /\ sanPc = "start"
    /\ sanitized' = SanitizeFilename(fname_in)
    /\ sanPc' = "once"
    /\ UNCHANGED <<fname_in, resanitized>>
    /\ UNCHANGED <<coreVars, selVars, metVars, supVars, startVars, prepVars, evVars, pathVars, waitVars>>

\* sanitize_filename(sanitize_filename(s))
SanitizeAgain ==
    /\ sanPc = "once"
    /\ resanitized' = SanitizeFilename(sanitized)
    /\ sanPc' = "twice"
    /\ UNCHANGED <<fname_in, sanitized>>
    /\ UNCHANGED <<coreVars, selVars, metVars, supVars, startVars, prepVars, evVars, pathVars, waitVars>>

NextSanitize == SanitizeOnce \/ SanitizeAgain

(***************************************************************************)
(* FC2LiveDL._prepare_file and _format_outtmpl: a path is the sequence of  *)
(* the pieces it is made of                                                *)
(***************************************************************************)
\* numbered copies of one name the directory holds at first
MaxCopies == 2
\* files the sessions create under the names resolved
MaxResolves == 2

\* what the fields of the template expand to, before the extension
Stems == {<<"foo">>, <<"-", "foo">>}
Exts == {"ts", "mp4"}
NoPath == <<>>

\* "{}".format(n)
Decimal == <<"1", "2", "3", "4", "5", "6", "7", "8", "9">>

\* a numbering that goes behind the extension
UniqueExtBehind(k, e) == IF k = 0 THEN <<e>> ELSE <<e, ".", Decimal[k]>>

\* extn = ext if n == 0 else "{}.{}".format(n, ext)
UniqueExt(k, e) == IF k = 0 THEN <<e>> ELSE <<Decimal[k], ".", e>>

\* _format_outtmpl with a template that ends with ".%(ext)s"
FormatOuttmpl(fields, extn) ==
    LET expanded == fields \o <<".">> \o extn
    IN  IF Head(expanded) = "-" THEN <<"_">> \o expanded ELSE expanded

\* the paths of the directory in the model
PathChoices ==
    {FormatOuttmpl(f, UniqueExt(k, e)) : f \in Stems, k \in 0..MaxCopies, e \in Exts}

InitPrepare ==
    /\ stem \in Stems
    /\ ext \in Exts
    /\ existing \in SUBSET {p \in PathChoices : StartsWith(p, FormatOuttmpl(stem, <<>>))}
    /\ uniqueN = 0
    /\ prepPc = "start"
    /\ prepared = NoPath
    /\ resolvesLeft = MaxResolves

PrepareAtRest ==
    /\ stem = <<"foo">>
    /\ ext = "ts"
    /\ existing = {}
    /\ uniqueN = 0
    /\ prepPc = "idle"
    /\ prepared = NoPath
    /\ resolvesLeft = 0

\* _prepare_file is called: n = 0
PrepCall ==
    /\ prepPc = "start"
    /\ uniqueN' = 0
    /\ prepPc' = "loop"
    /\ UNCHANGED <<stem, ext, existing, prepared, resolvesLeft>>
    /\ UNCHANGED <<coreVars, selVars, metVars, supVars, startVars, sanVars, evVars, pathVars, waitVars>>

\* one pass of the loop of get_unique_name; after the loop the parent
\* directory is made and fname is returned
PrepIterate ==
    /\ prepPc = "loop"
    /\ uniqueN < Len(Decimal)
    /\ LET fname == FormatOuttmpl(stem, UniqueExt(uniqueN, ext)) IN
       /\ uniqueN' = uniqueN + 1
       /\ IF fname \notin existing
          THEN prepared' = fname /\ prepPc' = "returned"
          ELSE UNCHANGED <<prepared, prepPc>>
    /\ UNCHANGED <<stem, ext, existing, resolvesLeft>>
    /\ UNCHANGED <<coreVars, selVars, metVars, supVars, startVars, sanVars, evVars, pathVars, waitVars>>

\* the session writes the file it resolved (open(fname, "wb")), and a later
\* session resolves the same name
PrepFileWritten ==
    /\ prepPc = "returned"
    /\ resolvesLeft > 0
    /\ resolvesLeft' = resolvesLeft - 1
    /\ existing' = existing \cup {prepared}
    /\ prepPc' = "start"
    /\ UNCHANGED <<stem, ext, uniqueN, prepared>>
    /\ UNCHANGED <<coreVars, selVars, metVars, supVars, startVars, sanVars, evVars, pathVars, waitVars>>

NextPrepare == PrepCall \/ PrepIterate \/ PrepFileWritten

(***************************************************************************)
(* FC2LiveDL.download: the paths of the artifacts of a session             *)
(***************************************************************************)
\* the artifacts, in the order of their _prepare_file calls
Artifacts == <<"info", "thumb", "stream", "chat", "muxed", "audio", "websocket">>

\* the qualities of the model
PathQualities == {"3Mbps", "sound"}

\* the ext argument of the _prepare_file call of an artifact
ArtifactExt(a, q) ==
    CASE a = "info" -> "info.json"
      [] a = "thumb" -> "png"
      [] a = "stream" -> "ts"
      [] a = "chat" -> "fc2chat.json"
      [] a = "muxed" -> IF q = "sound" THEN "m4a" ELSE "mp4"
      [] a = "audio" -> "m4a"
      [] a = "websocket" -> "ws"

\* get_unique_name: the first name of the numbering that does not exist
RECURSIVE GetUniqueName(_, _, _, _)
GetUniqueName(fields, e, exist, k) ==
    LET fname == FormatOuttmpl(fields, UniqueExt(k, e))
    IN  IF fname \notin exist THEN fname ELSE GetUniqueName(fields, e, exist, k + 1)

\* the names that may exist before the session
PathsBefore(fields) ==
    {FormatOuttmpl(fields, UniqueExt(k, e)) : k \in 0..1, e \in {"ts", "m4a", "mp4"}}

InitPaths ==
    /\ stem \in Stems
    /\ existing \in SUBSET PathsBefore(stem)
    /\ dump_websocket \in BOOLEAN
    /\ paths = [i \in DOMAIN Artifacts |-> NoPath]
    /\ pathPc = "start"
    /\ ext = "ts"
    /\ uniqueN = 0
    /\ prepPc = "idle"
    /\ prepared = NoPath
    /\ resolvesLeft = 0

PathsAtRest ==
    /\ dump_websocket = FALSE
    /\ paths = [i \in DOMAIN Artifacts |-> NoPath]
    /\ pathPc = "idle"

\* download(): the _prepare_file calls, one after the other with no await and
\* no file written in between; fname_websocket is None without dump_websocket
PathsResolve ==
    /\ pathPc = "start"
    /\ paths' = [i \in DOMAIN Artifacts |->
                   IF Artifacts[i] = "websocket" /\ ~dump_websocket
                   THEN NoPath
                   ELSE GetUniqueName(stem, ArtifactExt(Artifacts[i], quality), existing, 0)]
    /\ pathPc' = "resolved"
    /\ UNCHANGED <<dump_websocket, prepVars>>
    /\ UNCHANGED <<coreVars, selVars, metVars, supVars, startVars, sanVars, evVars, waitVars>>

\* the session writes the file of an artifact under the path it resolved
PathWritten(i) ==
    /\ pathPc = "resolved"
    /\ paths[i] # NoPath
    /\ paths[i] \notin existing
    /\ existing' = existing \cup {paths[i]}
    /\ UNCHANGED <<stem, ext, uniqueN, prepPc, prepared, resolvesLeft, pathVars>>
    /\ UNCHANGED <<coreVars, selVars, metVars, supVars, startVars, sanVars, evVars, waitVars>>

NextPaths == PathsResolve \/ \E i \in DOMAIN Artifacts : PathWritten(i)

(***************************************************************************)
(* FC2LiveDL.download: the wait for the selected quality                   *)
(***************************************************************************)
\* largest wait_for_quality_timeout of the model, in seconds
MaxQualityTimeout == 2
\* longest a call of get_hls_information takes, in seconds
MaxPollTime == 1
\* await asyncio.sleep(1)
QualitySleep == 1

\* got_mode = None
NoMode == 0 - 1
TypeError == "TypeError"

\* the parameters quality and latency of the model
WaitQualities == {"3Mbps", "1.2Mbps"}
WaitLatencies == {"mid", "low"}

\* a loop that gives up waiting after its first poll
KeepWaitingOnce(elapsed, timeout, g, m) == g = NoMode /\ g # m

\* while time.time() - started < wait_for_quality_timeout and got_mode != mode
KeepWaiting(elapsed, timeout, g, m) == elapsed < timeout /\ g # m

InitWait ==
    /\ wait_for_quality_timeout \in 0..MaxQualityTimeout
    /\ waitNow = 0
    /\ started = 0
    /\ \E q \in WaitQualities, l \in WaitLatencies : target = GetMode(q, l)
    /\ got_mode = NoMode
    /\ waitPc = "test"
    /\ polls = <<>>

WaitAtRest ==
    /\ wait_for_quality_timeout = 0
    /\ waitNow = 0
    /\ started = 0
    /\ target = 0
    /\ got_mode = NoMode
    /\ waitPc = "idle"
    /\ polls = <<>>

\* the test of the loop: another call of get_hls_information is begun, or the
\* loop is left; a got_mode that is not the requested one is formatted for
\* the warning (None raises TypeError), and the tasks of the download start
WaitTest ==
    /\ waitPc = "test"
    /\ IF KeepWaiting(waitNow - started, wait_for_quality_timeout, got_mode, target)
       THEN /\ waitPc' = "poll"
            /\ polls' = Append(polls, [at |-> waitNow, done |-> NoMode, exact |-> FALSE])
       ELSE /\ waitPc' = IF got_mode = NoMode THEN TypeError ELSE "download"
            /\ UNCHANGED polls
    /\ UNCHANGED <<wait_for_quality_timeout, waitNow, started, target, got_mode>>
    /\ UNCHANGED <<coreVars, selVars, metVars, supVars, startVars, nameVars>>

\* get_hls_information returns a response after some time, and
\* hls_url, got_mode = self._get_hls_url(hls_info, mode); a got_mode that is
\* not the requested one is reported, up to await asyncio.sleep(1)
WaitPoll ==
    /\ waitPc = "poll"
    /\ \E d \in 0..MaxPollTime, offered \in ModeLists(MaxVariants) :
         LET info == [k \in {"playlists"} |-> WithUrls(k, offered)]
             playlist == GetPlaylistOrBest(SortPlaylists(MergePlaylists(info)), target)
         IN  /\ waitNow' = waitNow + d
             /\ polls' = [polls EXCEPT ![Len(polls)] =
                            [at |-> @.at, done |-> waitNow',
                             exact |-> \E i \in DOMAIN offered : offered[i] = target]]
             /\ IF playlist.raised # "none"
                THEN /\ waitPc' = playlist.raised
                     /\ UNCHANGED got_mode
                ELSE /\ got_mode' = playlist.mode
                     /\ waitPc' = IF playlist.mode # target THEN "sleep" ELSE "test"
    /\ UNCHANGED <<wait_for_quality_timeout, started, target>>
    /\ UNCHANGED <<coreVars, selVars, metVars, supVars, startVars, nameVars>>

\* get_hls_information raises: EmptyPlaylistException after its tries, or the
\* error the reader task ended with
WaitPollRaises ==
    /\ waitPc = "poll"
    /\ \E d \in 0..MaxPollTime : waitNow' = waitNow + d
    /\ polls' = [polls EXCEPT ![Len(polls)] = [@ EXCEPT !.done = waitNow']]
    /\ waitPc' \in {"EmptyPlaylistException"} \cup ServerDisconnectionTypes
    /\ UNCHANGED <<wait_for_quality_timeout, started, target, got_mode>>
    /\ UNCHANGED <<coreVars, selVars, metVars, supVars, startVars, nameVars>>

\* await asyncio.sleep(1) is over
WaitSleepDone ==
    /\ waitPc = "sleep"
    /\ waitNow' = waitNow + QualitySleep
    /\ waitPc' = "test"
    /\ UNCHANGED <<wait_for_quality_timeout, started, target, got_mode, polls>>
    /\ UNCHANGED <<coreVars, selVars, metVars, supVars, startVars, nameVars>>

NextWait == WaitTest \/ WaitPoll \/ WaitPollRaises \/ WaitSleepDone

(***************************************************************************)
(* The specifications of the parts around the session                      *)
(***************************************************************************)
\* SpecPaths: the paths one session resolves, for both kinds of quality
InitPathsOnly ==
    /\ InitPaths
    /\ quality \in PathQualities
    /\ latency = "mid"
    /\ hls_info = [k \in {"playlists"} |-> <<>>]
    /\ selPc = "idle"
    /\ mode = 0
    /\ p_merged = <<>>
    /\ p_sorted = <<>>
    /\ got = NotCalled
    /\ formatted = [requested |-> NoFormat, available |-> NoFormat]
    /\ SanitizeAtRest /\ WaitAtRest
    /\ n_frags = 0 /\ total_size = 0 /\ progress = <<>>
    /\ MetricsAtRest /\ SupAtRest /\ StartAtRest /\ CoreAtRest

SpecPaths == InitPathsOnly /\ [][NextPaths]_vars

EventsAtRest ==
    /\ n_frags = 0
    /\ total_size = 0
    /\ progress = <<>>

NamesAtRest ==
    SanitizeAtRest /\ PrepareAtRest /\ WaitAtRest /\ EventsAtRest /\ PathsAtRest

OuterAtRest == SelAtRest /\ MetricsAtRest /\ SupAtRest /\ StartAtRest /\ NamesAtRest

InitSelect ==
    InitPlaylistChoice /\ MetricsAtRest /\ SupAtRest /\ StartAtRest /\ NamesAtRest /\ CoreAtRest

SpecSelect == InitSelect /\ [][NextSelect]_vars

(***************************************************************************)
(* FC2LiveDL.download: the events from the quality wait to the remux       *)
(* (download, _download_stream, _remux_stream), after the control session  *)
(* is open                                                                 *)
(***************************************************************************)
\* bytes of a fragment at most
MaxFragLen == 1
\* WAITING_FOR_TARGET_QUALITY events so far, each followed by sleep(1)
Waits(evs) == Cardinality({i \in 1..Len(evs) : evs[i] = "WAITING_FOR_TARGET_QUALITY"})

\* a finally block that awaits no task
TasksOverUnawaited == TRUE

\* the finally block of download(): task.cancel() and await task, for every
\* task that is not done
TasksOver == Done("_download_stream")

EvFrame ==
    /\ UNCHANGED <<paramVars, fileVars, remuxRan, finIdx, tCancel, cancelsLeft, cause>>
    /\ UNCHANGED <<wait_for_live, write_info_json, ffmpegOk, is_publish, meta, probeLog,
                   steps, togglesLeft>>
    /\ UNCHANGED <<hlsVars, wsVars, selVars, metVars, supVars, sanVars, prepVars, pathVars,
                   waitVars>>

\* one turn of the quality loop: get_hls_information raises; or the mode is
\* the requested one, or the wait is over, and GOT_HLS_URL is emitted and the
\* tasks are created; or WAITING_FOR_TARGET_QUALITY is emitted before sleep(1)
EvQualityPoll ==
    /\ dlPc = "quality"
    /\ \/ /\ dlPc' = "raised"
          /\ dlExc' = OSError
          /\ UNCHANGED <<events, tState>>
       \/ \E g \in {target, NoMode} :
            IF KeepWaiting(Waits(events), MaxQualityTimeout, g, target)
            THEN /\ events' = Append(events, "WAITING_FOR_TARGET_QUALITY")
                 /\ UNCHANGED <<dlPc, dlExc, tState>>
            ELSE /\ events' = Append(events, "GOT_HLS_URL")
                 /\ dlPc' = "recording"
                 /\ tState' = [tState EXCEPT !["_download_stream"] = "running"]
                 /\ UNCHANGED dlExc
    /\ UNCHANGED evVars
    /\ EvFrame

\* _download_stream: one fragment of hls.read() is written and reported; the
\* task runs until it is done, whatever download() does meanwhile
EvFragment ==
    /\ tState["_download_stream"] = "running"
    /\ tsExists
    /\ n_frags < MaxProgress
    /\ \E len \in 0..MaxFragLen :
          /\ n_frags' = n_frags + 1
          /\ total_size' = total_size + len
          /\ progress' = Append(progress, [fragments_downloaded |-> n_frags + 1,
                                           total_size |-> total_size + len])
    /\ events' = Append(events, "FRAGMENT_PROGRESS")
    /\ UNCHANGED <<dlPc, dlExc, tState>>
    /\ EvFrame

\* _download_stream ends: hls.read() is over, open() or the downloader has
\* raised, or the task was cancelled
EvStreamEnds ==
    /\ tState["_download_stream"] = "running"
    /\ tState' = [tState EXCEPT !["_download_stream"] = "returned"]
    /\ UNCHANGED <<dlPc, dlExc, events, evVars>>
    /\ EvFrame

\* asyncio.wait(tasks, FIRST_COMPLETED) returns or raises, and the finally
\* block begins
EvWaitOver ==
    /\ dlPc = "recording"
    /\ dlPc' = "await_task"
    /\ UNCHANGED <<dlExc, tState, events, evVars>>
    /\ EvFrame

\* the finally block: an await task raises what the task raised and download()
\* is over with the tasks after it still running; or every task is done, and
\* download() goes on to the remux, which emits MUXING, or returns
EvFinally ==
    /\ dlPc = "await_task"
    /\ \/ /\ dlPc' = "raised"
          /\ dlExc' = OSError
          /\ UNCHANGED events
       \/ /\ TasksOver
          /\ IF remux /\ tsExists
             THEN /\ dlPc' = "remux"
                  /\ events' = Append(events, "MUXING")
             ELSE /\ dlPc' = "returned"
                  /\ UNCHANGED events
          /\ UNCHANGED dlExc
    /\ UNCHANGED <<tState, evVars>>
    /\ EvFrame

\* the first _remux_stream is over; with extract_audio the second one begins
\* and emits MUXING
EvRemuxOver ==
    /\ dlPc = "remux"
    /\ IF extract_audio
       THEN /\ dlPc' = "extract_audio"
            /\ events' = Append(events, "MUXING")
       ELSE /\ dlPc' = "returned"
            /\ UNCHANGED events
    /\ UNCHANGED <<dlExc, tState, evVars>>
    /\ EvFrame

\* the second _remux_stream is over
EvExtractOver ==
    /\ dlPc = "extract_audio"
    /\ dlPc' = "returned"
    /\ UNCHANGED <<dlExc, tState, events, evVars>>
    /\ EvFrame

NextEvents ==
    \/ NextStart
    \/ EvQualityPoll \/ EvFragment \/ EvStreamEnds \/ EvWaitOver \/ EvFinally
    \/ EvRemuxOver \/ EvExtractOver

InitMetricsOnly ==
    InitMetrics /\ SelAtRest /\ SupAtRest /\ StartAtRest /\ NamesAtRest /\ CoreAtRest

SpecMetrics == InitMetricsOnly /\ [][NextMetrics]_vars

\* SpecSup: the channels of the file change and the file may not parse; no
\* configuration has a debounce_time.  SpecDebounce: one channel, and a
\* debounce_time that edits switch on and off
SupDocs == {Unreadable, Readable({"X", "Y"}, 0), Readable({"Y", "Z"}, 0)}

DebounceDocs == {Readable({"X"}, 0), Readable({"X"}, DebounceTime)}

InitSup ==
    /\ InitSupervisor
    /\ autofc2 = NoSection
    /\ docChoices = SupDocs
    /\ fileDoc \in docChoices
    /\ SelAtRest /\ MetricsAtRest /\ StartAtRest /\ NamesAtRest /\ CoreAtRest

InitDebounce ==
    /\ InitSupervisor
    /\ autofc2 = Section({"log_level"})
    /\ docChoices = DebounceDocs
    /\ fileDoc \in docChoices
    /\ SelAtRest /\ MetricsAtRest /\ StartAtRest /\ NamesAtRest /\ CoreAtRest

NextSup ==
    \/ SupTick \/ SupIterate \/ EditConfig \/ WatcherReads \/ MetricsServerRuns
    \/ \E c \in ChannelIds :
         NoopRuns(c) \/ TaskBegin(c) \/ SessionEnds(c) \/ StopDone(c)

NextDebounce ==
    \/ SupTick \/ SupIterate \/ EditConfig \/ WatcherReads \/ MetricsServerRuns
    \/ \E c \in ChannelIds :
         NoopRuns(c) \/ TaskBegin(c) \/ DebounceDone(c) \/ SessionEnds(c)

SpecSup == InitSup /\ [][NextSup]_vars

SpecDebounce == InitDebounce /\ [][NextDebounce]_vars

\* SpecPacing: the file has any "autofc2" section, or none
PacingDocs == {Readable({"X"}, 0), Readable({}, 0)}

InitPacing ==
    /\ InitSupervisor
    /\ autofc2 \in Autofc2Sections
    /\ docChoices = PacingDocs
    /\ fileDoc \in docChoices
    /\ SelAtRest /\ MetricsAtRest /\ StartAtRest /\ NamesAtRest /\ CoreAtRest

SpecPacing == InitPacing /\ [][NextSup]_vars

\* SpecChannels: two channels with a debounce_time, one of which leaves the
\* file and comes back, and the sessions report their events
ChannelDocs == {Readable({"X", "Y"}, DebounceTime), Readable({"Y"}, DebounceTime)}

InitChannels ==
    /\ InitSupervisor
    /\ autofc2 = Section({"log_level"})
    /\ docChoices = ChannelDocs
    /\ fileDoc \in docChoices
    /\ SelAtRest /\ MetricsAtRest /\ StartAtRest /\ NamesAtRest /\ CoreAtRest

NextChannels ==
    \/ NextSup
    \/ \E c \in ChannelIds :
          \/ DebounceDone(c)
          \/ \E typ \in ReportedTypes : ChannelReports(c, typ)

SpecChannels == InitChannels /\ [][NextChannels]_vars

InitStart ==
    /\ InitStartup /\ InitCalled
    /\ HLSAtRest /\ WSAtRest /\ SelAtRest /\ MetricsAtRest /\ SupAtRest /\ NamesAtRest

SpecStart == InitStart /\ [][NextStart]_vars

\* SpecEvents: one session from the call of download() to its end
InitEvents ==
    /\ InitStartup
    /\ write_chat = FALSE
    /\ remux \in BOOLEAN
    /\ tsExists \in BOOLEAN
    /\ keep_intermediates = FALSE
    /\ extract_audio \in BOOLEAN
    /\ muxedExists = FALSE
    /\ tsRemoved = FALSE
    /\ remuxInterrupted = FALSE
    /\ remuxRan = FALSE
    /\ dlPc = "start"
    /\ dlExc = NoError
    /\ finIdx = 0
    /\ tState = [t \in TaskNames |-> "absent"]
    /\ tCancel = [t \in TaskNames |-> FALSE]
    /\ cancelsLeft = 0
    /\ cause = "none"
    /\ HLSAtRest /\ WSAtRest /\ SelAtRest /\ MetricsAtRest /\ SupAtRest /\ NamesAtRest

SpecEvents == InitEvents /\ [][NextEvents]_vars

InitSanitizeOnly ==
    /\ InitSanitize /\ PrepareAtRest /\ WaitAtRest /\ EventsAtRest /\ PathsAtRest
    /\ SelAtRest /\ MetricsAtRest /\ SupAtRest /\ StartAtRest /\ CoreAtRest

SpecSanitize == InitSanitizeOnly /\ [][NextSanitize]_vars

InitPrepareOnly ==
    /\ InitPrepare /\ SanitizeAtRest /\ WaitAtRest /\ EventsAtRest /\ PathsAtRest
    /\ SelAtRest /\ MetricsAtRest /\ SupAtRest /\ StartAtRest /\ CoreAtRest

SpecPrepare == InitPrepareOnly /\ [][NextPrepare]_vars

InitWaitOnly ==
    /\ InitWait /\ SanitizeAtRest /\ PrepareAtRest /\ EventsAtRest /\ PathsAtRest
    /\ SelAtRest /\ MetricsAtRest /\ SupAtRest /\ StartAtRest /\ CoreAtRest

SpecWait == InitWaitOnly /\ [][NextWait]_vars

\* the caller of get_hls_information, and a reader task that is sent responses
\* and other frames and ends by the receive timeout
NextReq ==
    \/ WSTick
    \/ MainResponse \/ MainOtherFrame \/ MainRecvTimeout \/ MainHeartbeatSent
    \/ ReqStart \/ ReqSendDone \/ ReqGotResponse \/ ReqTimeout \/ ReqReaderDied
    \/ ReqBackoffDone

\* the reader task alone
NextMain ==
    \/ WSTick
    \/ MainConnectComplete \/ MainResponse \/ MainDisconnection \/ MainPublishStop
    \/ MainComment \/ MainOtherFrame \/ MainRecvTimeout \/ MainHeartbeatSent

\* SpecWS: the reader task alone, on a clock that runs second by second.
\* SpecReq: the reader task and a caller of get_hls_information, the clock
\* observed once every heartbeat interval.
InitWS ==
    /\ InitSocket
    /\ tickSize = 1
    /\ respLeft = MaxResponses
    /\ HLSAtRest
    /\ SessionAtRest
    /\ OuterAtRest

InitReq ==
    /\ InitSocket
    /\ tickSize = HeartbeatInterval
    /\ respLeft = MaxResponses
    /\ HLSAtRest
    /\ SessionAtRest
    /\ OuterAtRest

SpecWS == InitWS /\ [][NextMain]_vars

SpecReq == InitReq /\ [][NextReq]_vars

\* SpecSession: download() and its tasks; the server ends the control session
\* or falls silent, and the task of download() is cancelled from outside
InitDownload ==
    /\ InitSocket
    /\ tickSize = HeartbeatInterval
    /\ respLeft = 0
    /\ HLSAtRest
    /\ InitSession
    /\ OuterAtRest

NextSession ==
    \/ WSTick \/ MainDisconnection \/ MainPublishStop \/ MainRecvTimeout
    \/ MainCancelled
    \/ DiscWakes \/ DiscCancelDelivered
    \/ StreamFails \/ StreamCancelDelivered \/ StreamCleanupDone
    \/ ChatFails \/ ChatCancelDelivered
    \/ DlWaitReturns \/ DlCloseDone \/ DlAwaitDone \/ DlRemuxDone \/ DlExtractDone
    \/ ExternalCancel

SpecSession == InitDownload /\ [][NextSession]_vars

\* SpecSessionLive: the same, and what the event loop guarantees: a timer that
\* has run out fires, a cancellation that was requested is delivered, a task
\* that can run is run, ws.close() and ffmpeg come to an end.  Nothing is
\* assumed of the server, of the clock or of failures.
SessionFairness ==
    /\ WF_vars(MainRecvTimeout) /\ WF_vars(MainCancelled)
    /\ WF_vars(DiscWakes) /\ WF_vars(DiscCancelDelivered)
    /\ WF_vars(StreamCancelDelivered) /\ WF_vars(StreamCleanupDone)
    /\ WF_vars(ChatCancelDelivered)
    /\ WF_vars(DlWaitReturns) /\ WF_vars(DlCloseDone) /\ WF_vars(DlAwaitDone)
    /\ WF_vars(DlRemuxDone) /\ WF_vars(DlExtractDone)

SpecSessionLive == InitDownload /\ [][NextSession]_vars /\ SessionFairness

(***************************************************************************)
(* SpecHLS: the pipeline with failing fetches, on a server whose playlist  *)
(* GET is slow.  SpecStall: every fetch succeeds and the playlist GET      *)
(* takes no time, so the stall clock runs second by second.                *)
(***************************************************************************)
InitHLS ==
    /\ InitDownloader
    /\ observe = FALSE
    /\ pollLatency = SlowPoll
    /\ badLeft = MaxBad
    /\ raisesLeft = MaxRaises
    /\ WSAtRest
    /\ SessionAtRest
    /\ OuterAtRest

InitStall ==
    /\ InitDownloader
    /\ observe = FALSE
    /\ pollLatency = 0
    /\ badLeft = 0
    /\ raisesLeft = 0
    /\ WSAtRest
    /\ SessionAtRest
    /\ OuterAtRest

NextHLS ==
    \/ ReadStart
    \/ FillPoll \/ FillPollError \/ FillPut \/ FillPutBlocked
    \/ \E w \in Workers :
         \/ WorkerGet(w) \/ WorkerFetchOk(w) \/ WorkerFetchBad(w)
         \/ WorkerFetchRaises(w) \/ WorkerPutRetry(w) \/ WorkerPutData(w)
    \/ DownloadFinish
    \/ ReaderGet \/ ReaderWake
    \/ CancelStream

NextStall ==
    \/ ReadStart
    \/ FillPoll \/ FillPollError \/ FillPut \/ FillPutBlocked
    \/ \E w \in Workers : WorkerGet(w) \/ WorkerFetchOk(w) \/ WorkerPutData(w)
    \/ DownloadFinish
    \/ ReaderGet \/ ReaderWake
    \/ CancelStream

SpecHLS == InitHLS /\ [][NextHLS]_vars

SpecStall == InitStall /\ [][NextStall]_vars

\* SpecDiscover: SpecStall with the history of the poller kept
InitDiscover ==
    /\ InitDownloader
    /\ observe = TRUE
    /\ pollLatency = 0
    /\ badLeft = 0
    /\ raisesLeft = 0
    /\ WSAtRest
    /\ SessionAtRest
    /\ OuterAtRest

SpecDiscover == InitDiscover /\ [][NextStall]_vars

(***************************************************************************)
(* Properties of the downloader                                            *)
(***************************************************************************)
\* C1: the fragment indices yielded by read() and written to the output are
\* 0, 1, 2, ... in ascending order, without duplicate and without gap,
\* whatever the order in which the workers complete the fragments.
C1_OrderedYield ==
    /\ \A k \in 1..Len(written) : written[k].idx = k - 1
    /\ readIndex = Len(written)

\* fragment 0 is written, fragment 2 was completed before fragment 1 and the
\* reader has put it back and sleeps
C1_OutOfOrderArrival ==
    /\ Len(written) = 1
    /\ readPc = "sleep"
    /\ \E e \in frag_data : e.idx = 2
    /\ ~\E e \in frag_data : e.idx = 1

\* C2: once the poller has ended after more than 30 s without a new fragment
\* and the download task is over, the fragment sequence of read() ends and the
\* stream task completes: the stream task is over, or it can go on by itself.
C2_StallEndsStream ==
    (fillPc = "timeout" /\ downloadPc = "done")
        => (streamPc = "done" \/ ENABLED StreamStep)

\* the places that hold the payload of fragment i
PayloadsInQueue(i) == {e \in frag_data : e.idx = i}
PayloadsAtWorkers(i) == {w \in Workers : workers[w].pc = "put_data" /\ workers[w].idx = i}
PayloadsWritten(i) == {k \in 1..Len(written) : written[k].idx = i}

\* C3: a fragment whose GET keeps being answered with an error status goes
\* back on the urls queue with its counter one higher after each of the first
\* five failures (the counter equals the number of failed GETs and never
\* exceeds 5); it is given up on the sixth failure only, with exactly one
\* payload, the empty one, for its index; it is not fetched again afterwards,
\* and the reader gets past its index by writing the empty payload.
C3_RetryAndGiveUp ==
    /\ \A e \in frag_urls : e.tries = fetches[e.idx] /\ e.tries <= MaxTries
    /\ \A w \in Workers :
         /\ workers[w].pc = "fetch" =>
              workers[w].tries = fetches[workers[w].idx] /\ workers[w].tries <= MaxTries
         /\ workers[w].pc = "put_retry" =>
              workers[w].tries + 1 = fetches[workers[w].idx]
                 /\ workers[w].tries < MaxTries
    /\ \A i \in 0..MaxFrags :
         /\ gaveUp[i] \in {0, MaxTries + 1}
         /\ gaveUp[i] > 0 =>
              /\ ~\E e \in frag_urls : e.idx = i
              /\ ~\E w \in Workers :
                    workers[w].pc \in {"fetch", "put_retry"} /\ workers[w].idx = i
              /\ \A e \in PayloadsInQueue(i) : e.body = EmptyBody
              /\ \A w \in PayloadsAtWorkers(i) : workers[w].body = EmptyBody
              /\ \A k \in PayloadsWritten(i) : written[k].body = EmptyBody
              /\ Cardinality(PayloadsInQueue(i)) + Cardinality(PayloadsAtWorkers(i))
                    + Cardinality(PayloadsWritten(i)) <= 1
              /\ downloadPc # "done" =>
                    Cardinality(PayloadsInQueue(i)) + Cardinality(PayloadsAtWorkers(i))
                       + Cardinality(PayloadsWritten(i)) = 1
              /\ readIndex > i => written[i + 1] = [idx |-> i, body |-> EmptyBody]

\* a fragment was given up after six failed GETs and the reader is past it
C3_GaveUpAndPassed ==
    \E i \in 0..MaxFrags : gaveUp[i] = MaxTries + 1 /\ readIndex > i

(***************************************************************************)
(* Properties of the control session                                       *)
(***************************************************************************)
\* C4: the ids of the frames of one control session, heartbeats and requests
\* alike, start at 1 and each is strictly greater than every id sent before
\* it; no id is used twice, also after a send that timed out.
C4_IdsIncrease ==
    /\ outbox # <<>> => outbox[1].id = 1
    /\ \A j, k \in 1..Len(outbox) : j < k => outbox[j].id < outbox[k].id
    /\ \A k \in 1..Len(outbox) : outbox[k].id <= msg_id

\* a heartbeat and two requests were sent, the send of the first request
\* having timed out
C4_MixedSenders ==
    /\ attemptsSent >= 2
    /\ reqWaitId = 0
    /\ \E j, k \in 1..Len(outbox) :
         /\ j < k
         /\ outbox[j].name = "heartbeat"
         /\ outbox[k].name = "get_hls_information"

\* C5: the response the pop() task of a _send_message_and_wait call takes from
\* the map, which the call returns, carries the id that this call put into
\* its own request.
C5_IdKeyedDelivery == popResult # NoMsg => popResult.id = reqOwnId

\* C6: get_hls_information fails with EmptyPlaylistException only when none of
\* its attempts produced a response with playlists.
C6_EmptyPlaylistOnlyWithoutPlaylists == hlsPc = "failed_empty" => ~sawPlaylists

\* _main_loop handles a frame
MainHandlesFrame ==
    \/ MainConnectComplete \/ MainResponse \/ MainDisconnection \/ MainPublishStop
    \/ MainComment \/ MainOtherFrame

\* C7: a control_disconnection frame ends the reader with the error its code
\* selects (4101 PaidProgramDisconnection, 4507 LoginRequiredError, 4512
\* MultipleConnectionError, any other code c ServerDisconnection with code c),
\* a publish_stop frame ends it with StreamEnded; after either the reader
\* handles no further frame and wait_disconnection raises exactly that error.
C7_DisconnectionMapping ==
    /\ endFrame.name = "control_disconnection" =>
         /\ mainPc = "done"
         /\ mainErr.code = endFrame.code
         /\ mainErr.type = CASE endFrame.code = 4101 -> "PaidProgramDisconnection"
                             [] endFrame.code = 4507 -> "LoginRequiredError"
                             [] endFrame.code = 4512 -> "MultipleConnectionError"
                             [] OTHER -> "ServerDisconnection"
    /\ endFrame.name = "publish_stop" =>
         /\ mainPc = "done"
         /\ mainErr.type = "StreamEnded"
    /\ endFrame # NoFrame =>
         /\ WaitDisconnection = mainErr
         /\ ~ENABLED MainHandlesFrame

\* the reader was ended by control_disconnection with a code that has no class
\* of its own, after it had handled other frames
C7_UnknownCodeReceived ==
    /\ endFrame = [name |-> "control_disconnection", code |-> 9999]
    /\ mainErr = [type |-> "ServerDisconnection", code |-> 9999]
    /\ Len(hbLog) >= 1

\* C8: when the reader is back at receive after handling a frame, the last
\* heartbeat was sent less than 30 s before (one is emitted right after the
\* frame when 30 s or more have passed), and two consecutive heartbeats are
\* handed to the socket at least 30 s apart.
C8_HeartbeatCadence ==
    /\ (handled /\ mainPc = "recv") => recvSince - last_heartbeat < HeartbeatInterval
    /\ \A k \in 2..Len(hbLog) : hbLog[k] - hbLog[k - 1] >= HeartbeatInterval

\* two heartbeats were sent and the reader is back at receive
C8_SecondHeartbeat ==
    /\ Len(hbLog) = 2
    /\ handled
    /\ mainPc = "recv"
    /\ last_heartbeat = hbLog[2]

(***************************************************************************)
(* Properties of the recording session                                     *)
(***************************************************************************)
\* C9: when download() is over, by returning or by raising, none of the tasks
\* of the session is still running.
C9_NoTaskOutlivesDownload ==
    dlPc \in {"returned", "raised"} => \A k \in 1..Len(Tasks) : Done(Tasks[k])

\* C10: a session that ends because of StreamEnded, of a ServerDisconnection
\* of any class or of an external cancellation does not make download() raise,
\* and download() returns having run the remux step exactly when remux is
\* enabled and the .ts file exists.
C10_HandledEndings ==
    cause \in {"StreamEnded", "ServerDisconnection", "cancel"} =>
        /\ dlPc # "raised"
        /\ dlPc = "returned" => (remuxRan <=> (remux /\ tsExists))

(***************************************************************************)
(* Properties of the mode and of the choice of the playlist                *)
(***************************************************************************)
ModesOf(playlists) == [i \in DOMAIN playlists |-> playlists[i].mode]

\* C12: when some variant of the merged response has the requested mode,
\* _get_hls_url returns the requested mode, and the url it returns is the url
\* of a variant of that mode
C12_ExactModeSelected ==
    (/\ got # NotCalled
     /\ \E k \in DOMAIN hls_info : \E i \in DOMAIN hls_info[k] :
           hls_info[k][i].mode = mode)
    => /\ got.raised = "none"
       /\ got.mode = mode
       /\ \E k \in DOMAIN hls_info : \E i \in DOMAIN hls_info[k] :
             hls_info[k][i] = [mode |-> mode, url |-> got.url]

\* the requested mode is offered, but a variant of another mode sorts first
C12_ExactBehindBetter ==
    /\ got # NotCalled
    /\ Len(p_sorted) >= 2
    /\ p_sorted[1].mode # mode
    /\ \E i \in DOMAIN p_sorted : p_sorted[i].mode = mode

\* C13 as stated: _format_mode gives back the pair _get_mode built the mode
\* from; mode 52 is ("3Mbps", "high") and mode 90 is ("sound", "low")
C13_ModeDecompositionHigh ==
    formatted.requested # NoFormat
    => /\ formatted.requested = [quality |-> quality, latency |-> latency]
       /\ mode = 52 => formatted.requested = [quality |-> "3Mbps", latency |-> "high"]
       /\ mode = 90 => formatted.requested = [quality |-> "sound", latency |-> "low"]

\* C13, amended: _format_mode gives back the pair _get_mode built the mode
\* from, the quality code being the tens part and the latency code the ones
\* part of the mode; mode 52 is ("3Mbps", "mid"), mode 51 is ("3Mbps", "high")
\* and mode 90 is ("sound", "low")
C13_ModeDecomposition ==
    formatted.requested # NoFormat
    => /\ formatted.requested = [quality |-> quality, latency |-> latency]
       /\ CodeOf(STREAM_QUALITY, formatted.requested.quality) = (mode \div 10) * 10
       /\ CodeOf(STREAM_LATENCY, formatted.requested.latency) = mode % 10
       /\ mode = 52 => formatted.requested = [quality |-> "3Mbps", latency |-> "mid"]
       /\ mode = 51 => formatted.requested = [quality |-> "3Mbps", latency |-> "high"]
       /\ mode = 90 => formatted.requested = [quality |-> "sound", latency |-> "low"]

\* mode 52 was formatted
C13_Mode52Formatted == formatted.requested # NoFormat /\ mode = 52

\* C14: the sorted list holds the variants of the three keys, in descending
\* order of (mode - 90 if mode >= 90 else mode), variants of equal key in the
\* order of the merge; every sound variant is behind every video variant; the
\* modes 10, 52, 90, 30 are sorted to 52, 30, 10, 90
C14_PlaylistRanking ==
    got # NotCalled
    => LET Key(m) == IF m >= 90 THEN m - 90 ELSE m
           At(key) == IF key \in DOMAIN hls_info THEN hls_info[key] ELSE <<>>
           PosInMerge(p) == CHOOSE i \in DOMAIN p_merged : p_merged[i] = p
       IN  /\ p_merged = At("playlists") \o At("playlists_high_latency")
                           \o At("playlists_middle_latency")
           /\ Len(p_sorted) = Len(p_merged)
           /\ {p_sorted[i] : i \in DOMAIN p_sorted} = {p_merged[i] : i \in DOMAIN p_merged}
           /\ \A i, j \in DOMAIN p_sorted :
                 i < j => /\ Key(p_sorted[i].mode) >= Key(p_sorted[j].mode)
                          /\ Key(p_sorted[i].mode) = Key(p_sorted[j].mode)
                               => PosInMerge(p_sorted[i]) < PosInMerge(p_sorted[j])
           /\ \A i, j \in DOMAIN p_sorted :
                 (p_sorted[i].mode >= 90 /\ p_sorted[j].mode \in 10..89) => j < i
           /\ ModesOf(p_merged) = <<10, 52, 90, 30>>
                 => ModesOf(p_sorted) = <<52, 30, 10, 90>>

\* the response of the scenario was sorted
C14_ScenarioSorted == got # NotCalled /\ ModesOf(p_merged) = <<10, 52, 90, 30>>

(***************************************************************************)
(* Properties of the metrics                                               *)
(***************************************************************************)
GaugesAtOne(c) == {typ \in EventTypes : Promstr[c].event[typ] = 1}

\* C20 as stated: for every channel of the exposition exactly one event gauge
\* is 1, also after the reset and before the first event, and it is the gauge
\* of the last event received for the channel
C20_OneHotAlways ==
    \A c \in DOMAIN Promstr :
       /\ Cardinality(GaugesAtOne(c)) = 1
       /\ lastEvent[c] # 0 => GaugesAtOne(c) = {lastEvent[c]}

\* C20, amended: for every channel of the exposition at most one event gauge
\* is 1 and the others are 0; after a reset of the channel and before its next
\* event all six are 0, and from then on exactly the gauge of the type of the
\* last event received for the channel is 1
C20_OneHotAfterEvent ==
    \A c \in DOMAIN Promstr :
       /\ \A typ \in EventTypes : Promstr[c].event[typ] \in {0, 1}
       /\ GaugesAtOne(c) = IF lastEvent[c] = 0 THEN {} ELSE {lastEvent[c]}

\* a channel was reset after an event, another one has received two events
C20_ResetAndEvents ==
    /\ "X" \in DOMAIN Promstr /\ lastEvent["X"] = 0
    /\ "Y" \in DOMAIN Promstr /\ lastEvent["Y"] = 6
    /\ channel_metrics["Y"].fragments_downloaded = 2

(***************************************************************************)
(* Properties of the supervisor                                            *)
(***************************************************************************)
\* C15: after every pass of the loop the channel ids that are keys of tasks
\* are the channels of the configuration the pass parsed (or retained): an id
\* added to the file is a key, an id removed from it is not
C15_ChannelSetFollowsConfig ==
    supPc = "waiting" => {c \in ChannelIds : HasKey(c)} = reloaded

\* C16: the supervisor running with the channels X and Y and the file being
\* changed to the channels Y and Z, two seconds after the change cancel() has
\* been called on the task of X, X is not recording, and fc2.download has been
\* called for Z
C16_HotReload ==
    (/\ edit.from = {"X", "Y"}
     /\ edit.to = Readable({"Y", "Z"}, 0)
     /\ "Z" \in edit.fresh
     /\ supNow >= edit.at + 2)
    => /\ cancelledAt["X"] >= edit.at
       /\ taskPc["X"] \notin {"debounce", "download"}
       /\ starts["Z"] # <<>>
       /\ starts["Z"][Len(starts["Z"])].at >= edit.at

\* two seconds after that change, X still shutting down and Z recording
C16_TwoSecondsAfterEdit ==
    /\ edit.from = {"X", "Y"}
    /\ edit.to = Readable({"Y", "Z"}, 0)
    /\ "Z" \in edit.fresh
    /\ supNow = edit.at + 2
    /\ taskPc["X"] = "stopping"
    /\ taskPc["Z"] = "download"

\* C17: at most one task of handle_channel per channel id is created and not
\* done, and it is the one tasks holds
C17_OneSessionPerChannel ==
    \A c \in ChannelIds :
       /\ live[c] <= 1
       /\ live[c] = 1 <=> taskPc[c] \in {"created", "debounce", "download", "stopping"}

\* X was removed from the file and cancelled, was added back, and records in
\* its second session
C17_RemovedAndBack ==
    /\ cancelledAt["X"] > 0
    /\ Len(starts["X"]) = 2
    /\ taskPc["X"] = "download"
    /\ live["X"] = 1

\* C18: two consecutive calls of fc2.download for a channel, both made under
\* a debounce_time > 0, are at least the debounce_time apart; the second one
\* is made when it was asked for or when the debounce_time has passed since
\* the first, whichever is later; the first call for a channel is made when
\* it is asked for
C18_Debounce ==
    \A c \in ChannelIds :
       /\ \A k \in DOMAIN starts[c] : starts[c][k].at >= starts[c][k].asked
       /\ Len(starts[c]) = 1 => starts[c][1].at = starts[c][1].asked
       /\ (Len(starts[c]) = 2 /\ starts[c][1].debounce > 0 /\ starts[c][2].debounce > 0)
          => /\ starts[c][2].at - starts[c][1].at >= starts[c][2].debounce
             /\ starts[c][2].at =
                  IF starts[c][2].asked >= starts[c][1].at + starts[c][2].debounce
                  THEN starts[c][2].asked
                  ELSE starts[c][1].at + starts[c][2].debounce

\* a restart asked for one second after the start waited for the remainder
C18_WaitedRemainder ==
    /\ Len(starts["X"]) = 2
    /\ starts["X"][1].debounce = DebounceTime
    /\ starts["X"][2].debounce = DebounceTime
    /\ starts["X"][2].asked = starts["X"][1].at + 1
    /\ starts["X"][2].at = starts["X"][1].at + DebounceTime

\* C19: a call of get_config that cannot read or parse the file returns the
\* last document parsed and leaves it as it was, if there is one; if there is
\* none (the first load) it raises, nothing is retained and _main ends; a call
\* that parses the file returns and retains the document
C19_ConfigRetained ==
    cfgCall # NoCall
    => /\ (~cfgCall.ok /\ cfgCall.before # NoConfig)
          => /\ ~cfgCall.raised
             /\ cfgCall.returned = cfgCall.before
             /\ last_valid_config = cfgCall.before
       /\ (~cfgCall.ok /\ cfgCall.before = NoConfig)
          => /\ cfgCall.raised
             /\ last_valid_config = NoConfig
             /\ supPc = "crashed"
       /\ cfgCall.ok
          => /\ ~cfgCall.raised
             /\ cfgCall.returned # NoConfig
             /\ last_valid_config = cfgCall.returned

\* the file stopped parsing after a pass had loaded it, and a later pass ran
\* on the retained document
C19_FailureAfterSuccess ==
    /\ ~cfgCall.ok
    /\ cfgCall.before # NoConfig
    /\ supPc = "waiting"
    /\ reloaded = cfgCall.before.channels
    /\ edit.to = Unreadable
    /\ supNow > edit.at

(***************************************************************************)
(* Properties of the start of a session                                    *)
(***************************************************************************)
\* C11: if the first answer of the member API says the channel is not
\* broadcasting and wait_for_live is off, download() has raised
\* NotOnlineException with no output path resolved, no websocket url requested
\* and no control session opened; and whatever wait_for_live is, none of these
\* steps has happened unless the last answer of the member API said the
\* channel is broadcasting
C11_NotOnlineBeforeAnyStep ==
    /\ (probeLog # <<>> /\ probeLog[1] = 0 /\ ~wait_for_live)
       => /\ dlPc = "raised"
          /\ dlExc = NotOnlineException
          /\ steps = {}
    /\ (steps # {} \/ dlPc \in {"ws_url", "ws_connect", "quality"})
       => /\ probeLog # <<>>
          /\ probeLog[Len(probeLog)] > 0

\* the session was started without wait_for_live on a channel that is off the
\* air, and download() raised NotOnlineException after its one probe
C11_RaisedNotOnline ==
    /\ ~wait_for_live
    /\ probeLog = <<0>>
    /\ dlPc = "raised"
    /\ dlExc = NotOnlineException
    /\ steps = {}

(***************************************************************************)
(* Properties of the choice among the variants, continued                  *)
(***************************************************************************)
\* the modes whose quality and latency codes are codes of the dicts
ValidMode(m) ==
    /\ \E i \in DOMAIN STREAM_QUALITY : STREAM_QUALITY[i].code = (m \div 10) * 10
    /\ \E i \in DOMAIN STREAM_LATENCY : STREAM_LATENCY[i].code = m % 10

\* C29: of a sorted list that is not empty and has valid modes only,
\* _get_playlist_or_best returns (a) a variant of the requested mode if there
\* is one, (b) else the first variant in the sorted order whose latency code
\* is the one of the requested mode if there is one, which has the greatest
\* sort key among them, (c) else the first element; of an empty list it
\* raises EmptyPlaylistException
C29_FallbackPrecedence ==
    selPc \in {"callback", "raised", "done"}
    => LET exact == {i \in DOMAIN p_sorted : p_sorted[i].mode = mode}
           same == {i \in DOMAIN p_sorted : p_sorted[i].mode % 10 = mode % 10}
           Is(i) == /\ got.raised = "none"
                    /\ got.url = p_sorted[i].url
                    /\ got.mode = p_sorted[i].mode
       IN  /\ p_sorted = <<>> => got.raised = "EmptyPlaylistException"
           /\ (p_sorted # <<>> /\ \A i \in DOMAIN p_sorted : ValidMode(p_sorted[i].mode))
              => /\ exact # {} => \E i \in exact : Is(i)
                 /\ (exact = {} /\ same # {})
                    => /\ Is(Min(same))
                       /\ \A j \in same : KeyMap(p_sorted[j]) <= KeyMap(p_sorted[Min(same)])
                 /\ (exact = {} /\ same = {}) => Is(1)

\* no variant of the requested mode, and the best variant of the requested
\* latency stands behind a variant of another latency
C29_LatencyBehindBetter ==
    /\ selPc = "done"
    /\ \A i \in DOMAIN p_sorted : p_sorted[i].mode # mode
    /\ Len(p_sorted) >= 2
    /\ p_sorted[1].mode % 10 # mode % 10
    /\ got.mode % 10 = mode % 10
    /\ got.url = p_sorted[2].url

(***************************************************************************)
(* Properties of the end of a session                                      *)
(***************************************************************************)
\* C21: os.remove(fname_stream) has been called only if the remux step was
\* entered and is over, remux is on, keep_intermediates is off and the muxed
\* file exists; while download() has not returned from the remux step, and in
\* a session with remux off, with keep_intermediates on or without a muxed
\* file, it has not been called
C21_IntermediateRemoval ==
    /\ tsRemoved => /\ remux
                    /\ remuxRan
                    /\ tsExists
                    /\ ~keep_intermediates
                    /\ muxedExists
                    /\ dlPc = "returned"
    /\ (dlPc = "returned" /\ remuxRan /\ ~keep_intermediates /\ muxedExists) => tsRemoved

\* a session with remux and extract_audio whose remux step wrote the muxed
\* file has removed the intermediate file
C21_RemovedAfterRemux ==
    /\ tsRemoved
    /\ extract_audio
    /\ dlPc = "returned"
    /\ cause # "none"

(***************************************************************************)
(* Properties of the file names                                            *)
(***************************************************************************)
\* the plain expansion of the template, and the path with .k before the
\* extension
PlainPath == FormatOuttmpl(stem, <<ext>>)
NumberedPath(k) ==
    IF k = 0
    THEN PlainPath
    ELSE SubSeq(PlainPath, 1, Len(PlainPath) - 2) \o <<".", Decimal[k], ".", ext>>

\* C22: the path _prepare_file returns does not exist when it is returned; it
\* is the plain expansion of the template if that does not exist, and else
\* the first path that does not exist among those with .1, .2, ... before the
\* extension
C22_CollisionHandling ==
    prepPc = "returned"
    => /\ prepared \notin existing
       /\ \E k \in 0..Len(Decimal) :
            /\ prepared = NumberedPath(k)
            /\ \A j \in 0..(k - 1) : NumberedPath(j) \in existing

\* foo.ts and foo.1.ts exist, and foo.2.ts is returned
C22_SecondCopy ==
    /\ prepPc = "returned"
    /\ {<<"foo", ".", "ts">>, <<"foo", ".", "1", ".", "ts">>} \subseteq existing
    /\ prepared = <<"foo", ".", "2", ".", "ts">>

\* C23: sanitize_filename applied to its own result returns it unchanged
C23_SanitizeIdempotent ==
    sanPc = "twice" => resanitized = sanitized

(***************************************************************************)
(* Properties of the response map and of _send_message_and_wait            *)
(***************************************************************************)
\* C24: no pop() task waits for a key that is in the map: pop(k) returns the
\* value of k once k is present, whether put(k, v) came before or after the
\* task began to wait
C24_PopReturnsPresent ==
    \A k \in waiting : \A m \in respMap : m.id # k

\* C25: _send_message_and_wait raises the error of the reader task only if
\* that task is over, and, waiting for the id it put into its frame, returns
\* None for the timeout only if no response with that id has been put into
\* the map
C25_FirstEventWins ==
    [][/\ (hlsPc = "waiting" /\ hlsPc' = "failed_reader") => mainPc = "done"
       /\ (/\ hlsPc = "waiting"
           /\ reqWaitId = reqOwnId
           /\ popResult = NoMsg
           /\ hlsPc' \in {"backoff", "failed_empty"})
          => \A m \in respMap : m.id # reqOwnId]_vars

(***************************************************************************)
(* Properties of the fragment downloader under errors                      *)
(***************************************************************************)
\* the places that hold fragment i on its way to the payloads queue
UrlsInQueue(i) == {e \in frag_urls : e.idx = i}
FetchingWorkers(i) ==
    {w \in Workers : workers[w].pc \in {"fetch", "put_retry", "put_data"}
                        /\ workers[w].idx = i}

\* C26: while the workers run, every index the poller has handed out is still
\* on its way to the reader: on the urls queue, at a worker that fetches it or
\* puts it, on the payloads queue, or written. An index in none of these
\* places is delivered by no task, and the reader waits for it forever.
C26_TakenIndexDelivered ==
    downloadPc = "fill" =>
        \A i \in 0..(frag_idx - 1) :
            \/ UrlsInQueue(i) # {}
            \/ FetchingWorkers(i) # {}
            \/ PayloadsInQueue(i) # {}
            \/ PayloadsWritten(i) # {}

\* C27: a playlist answered with 403 ends the poller, and once the download
\* task is over the fragment sequence of read() ends with it, so that the
\* stream task completes (it is over, or it can go on by itself); a playlist
\* answered with 404 does not end the poller with an error.
C27_ForbiddenEndsStream ==
    /\ PollOutcome(pollStatus) = "StreamEnded" =>
          /\ fillPc = "error"
          /\ downloadPc = "done" => (streamPc = "done" \/ ENABLED StreamStep)
    /\ PollOutcome(pollStatus) = "empty" => fillPc # "error"

(***************************************************************************)
(* Properties of the receive deadline                                      *)
(***************************************************************************)
\* C28: a receive of the reader never waits longer than 30 s; the reader that
\* ran into the deadline is over with TimeoutError and wait_disconnection
\* raises that error; and whenever a receive has waited 30 s, download()
\* comes to an end, by returning or by raising.
C28_SilenceEndsSession ==
    /\ [](mainPc = "recv" => wsNow - recvSince <= HeartbeatInterval)
    /\ [](mainErr.type = "TimeoutError" =>
             mainPc = "done" /\ WaitDisconnection = mainErr)
    /\ (mainPc = "recv" /\ wsNow - recvSince >= HeartbeatInterval)
          ~> (dlPc \in {"returned", "raised"})

\* the control channel was silent for 30 s, wait_disconnection was the task
\* that exited, and download() has raised the TimeoutError of the reader
C28_TimeoutRaised ==
    /\ mainErr.type = "TimeoutError"
    /\ tState["wait_disconnection"] = "failed"
    /\ cause = "TimeoutError"
    /\ dlPc = "raised"
    /\ dlExc.type = "TimeoutError"

(***************************************************************************)
(* Properties of the wait for the selected quality                         *)
(***************************************************************************)
\* C30: the first call of get_hls_information is made when the wait begins
\* and each further call one second after the call before it returned; the
\* first response that offers the requested mode ends the wait, and the
\* download starts with that mode when that response arrives; the download
\* starts with another mode only when wait_for_quality_timeout seconds or
\* more have passed since the wait began, no response having offered the
\* requested mode.
C30_QualityWait ==
    /\ Len(polls) >= 1 => polls[1].at = started
    /\ \A k \in 2..Len(polls) : polls[k].at = polls[k - 1].done + 1
    /\ \A k \in 1..Len(polls) :
         polls[k].exact =>
            /\ k = Len(polls)
            /\ waitPc \in {"test", "download"}
            /\ got_mode = target
            /\ waitNow = polls[k].done
    /\ (waitPc = "download" /\ got_mode = target) => polls[Len(polls)].exact
    /\ (waitPc = "download" /\ got_mode # target) =>
         /\ waitNow - started >= wait_for_quality_timeout
         /\ \A k \in 1..Len(polls) : ~polls[k].exact

\* the requested mode was not offered by either of two polls, and after the
\* timeout of 2 s the download starts with a mode of the requested latency
C30_FallbackAfterTimeout ==
    /\ waitPc = "download"
    /\ wait_for_quality_timeout = 2
    /\ Len(polls) = 2
    /\ waitNow - started = 2
    /\ target = 50
    /\ got_mode = 30

(***************************************************************************)
(* Properties of the supervisor and of its channels                        *)
(***************************************************************************)
\* C31: a task of handle_channel that _main has just created belongs to a
\* channel of the configuration the pass has loaded: the entry of a channel
\* that left the configuration is not restarted.
C31_OnlyConfiguredStarted ==
    \A c \in ChannelIds : taskPc[c] = "created" => c \in reloaded

(***************************************************************************)
(* Properties of the discovery of fragments                                *)
(***************************************************************************)
\* the urls of a playlist behind the url that was enqueued last (behind its
\* first occurrence), all of them when it does not occur
AfterLast(frags, last) ==
    LET at == {k \in 1..Len(frags) : frags[k] = last}
    IN  IF at = {} THEN frags ELSE SubSeq(frags, Min(at) + 1, Len(frags))

\* the urls the poller has put in this step, in the order of the puts
PutNow == SubSeq(enqueued', Len(enqueued) + 1, Len(enqueued'))

PollReturned ==
    /\ fillPc = "poll"
    /\ fillPc' \in {"poll", "put", "timeout"}
    /\ pollerVars' # pollerVars

\* C32: the k-th url the poller puts gets the index k - 1, with the counter 0;
\* the urls put after a poll, together with those still waiting for room on
\* the queue, are the urls of the playlist behind the url enqueued last, in
\* the order of the playlist, and a blocked put goes on with the urls that
\* waited; a poll that returns no url leaves the remembered url alone; and
\* while the playlists are a window sliding forward no url is put twice.
C32_FragmentDiscovery ==
    /\ [][/\ frag_urls' \ frag_urls =
               {[idx |-> frag_idx + j - 1, url |-> PutNow[j], tries |-> 0] :
                  j \in 1..Len(PutNow)}
          /\ frag_idx' = Len(enqueued')
          /\ PollReturned =>
                /\ PutNow \o fillPending' = AfterLast(polled', last_fragment)
                /\ polled' = <<>> => last_fragment' = last_fragment
          /\ (fillPc = "put" /\ PutNow # <<>>) => PutNow \o fillPending' = fillPending
         ]_vars
    /\ [](sliding => \A i, j \in 1..Len(enqueued) : i # j => enqueued[i] # enqueued[j])
    /\ [](fillPc = "poll" /\ enqueued # <<>> => last_fragment = enqueued[Len(enqueued)])

\* the playlist was a window with url 1 and is now the window <<2>>: the
\* poller has put url 1 and then url 2, each once
C32_WindowSlid ==
    /\ sliding
    /\ polled = <<2>>
    /\ enqueued = <<1, 2>>
    /\ frag_idx = 2
    /\ fillPc = "poll"

(***************************************************************************)
(* Properties of the bounded queues                                        *)
(***************************************************************************)
\* the payloads queue is at capacity with indices behind the cursor of the
\* reader only, and a running worker holds the payload of the cursor index
CursorPayloadBlocked ==
    /\ streamPc = "running"
    /\ downloadPc = "fill"
    /\ Full(frag_data)
    /\ \A e \in frag_data : e.idx > readIndex
    /\ \E w \in Workers : workers[w].pc = "put_data" /\ workers[w].idx = readIndex

\* C33: when the payloads queue is full of indices behind the cursor and a
\* worker holds the payload of the cursor index, the pipeline is not stuck:
\* some step of the poller, of a worker or of the reader makes room on the
\* payloads queue or moves the cursor.
C33_BackpressureProgress ==
    CursorPayloadBlocked =>
        ENABLED (NextStall /\ <<frag_data, readIndex>>' # <<frag_data, readIndex>>)

(***************************************************************************)
(* Properties of the end of the stream                                     *)
(***************************************************************************)
\* C34: when the poller has ended by itself (stall timeout or failed poll),
\* the download task is over and nothing was cancelled from outside, every
\* index the poller has put on the urls queue is written or has its payload
\* on the payloads queue, where the reader finds it.
C34_NoFragmentLostAtEnd ==
    (fillPc \in {"timeout", "error"} /\ downloadPc = "done" /\ readPc # "cancelled")
        => \A i \in 0..(frag_idx - 1) :
              PayloadsWritten(i) # {} \/ PayloadsInQueue(i) # {}

\* C35: the poller ends with the stall timeout only at the end of a poll that
\* found no new fragment, more than 30 s after the last poll that found one;
\* it never ends with it coming from a put that was blocked on the full urls
\* queue.
C35_StallOnlyWithoutNew ==
    [][(fillPc # "timeout" /\ fillPc' = "timeout")
          => /\ fillPc = "poll"
             /\ frag_idx' = frag_idx
             /\ Stalled(sinceFragment')]_vars


\* C36: when a cancellation has interrupted a remux of the session (the one
\* of the muxed file or the one of the audio file), the intermediate .ts file
\* is not removed: it is still there when download() is over.
C36_InterruptedRemuxKeepsTs ==
    remuxInterrupted => ~tsRemoved


\* C37: a pass of the loop of _main that follows a wait is made only when the
\* 1 s sleep of the pass before is over or the task of a channel is done, and
\* the tasks of config_watcher and metrics_webserver are never done, whatever
\* "autofc2" section the file has.
C37_SupervisorPacing ==
    /\ [][(supPc = "waiting" /\ spins' = spins + 1)
            => (supNow >= sleepAt \/ \E c \in ChannelIds : taskPc[c] = "done")]_vars
    /\ [](watcherPc # "done" /\ metricsPc # "done")


\* what the supervisor holds for one channel, and the metrics of the channel
ChannelView(c) ==
    <<taskPc[c], sleepInfo[c], last_startup_time[c], starts[c], live[c], cancelledAt[c]>>

MetricsOf(c) ==
    <<c \in DOMAIN channel_metrics,
      IF c \in DOMAIN channel_metrics THEN channel_metrics[c] ELSE ResetMetrics,
      lastEvent[c]>>

\* a pass of the loop of _main
LoopPass == spins' = spins + 1

\* C38: a step of the task of one channel (its start, its debounce, its end,
\* its cancellation, an event it reports) changes neither the task nor the
\* metrics of another channel; a pass of the supervisor, whatever it does to
\* the channels that left the file or whose task is done, leaves the running
\* task of a channel that is in the file as it is, and changes no metrics.
C38_ChannelIndependence ==
    [][\A d \in ChannelIds :
         /\ (/\ ~LoopPass
             /\ \E c \in ChannelIds \ {d} :
                   ChannelView(c)' # ChannelView(c) \/ MetricsOf(c)' # MetricsOf(c))
              => (ChannelView(d)' = ChannelView(d) /\ MetricsOf(d)' = MetricsOf(d))
         /\ (LoopPass /\ d \in reloaded' /\ taskPc[d] \in {"download", "debounce"})
              => ChannelView(d)' = ChannelView(d)
         /\ LoopPass => MetricsOf(d)' = MetricsOf(d)]_vars

\* X has left the file and its session, which had reported a fragment, is
\* cancelled, while the first session of Y still runs and has reported two
C38_OneCancelledOtherRecords ==
    /\ taskPc["X"] = "stopping"
    /\ taskPc["Y"] = "download"
    /\ Len(starts["Y"]) = 1
    /\ {"X", "Y"} \subseteq DOMAIN channel_metrics
    /\ channel_metrics["X"].fragments_downloaded = 1
    /\ channel_metrics["Y"].fragments_downloaded = MaxProgress


\* CallbackEvent.Type of the name of an event
TypeOf(name) ==
    CASE name = "WAITING_FOR_ONLINE" -> WAITING_FOR_ONLINE
      [] name = "STREAM_ONLINE" -> STREAM_ONLINE
      [] name = "WAITING_FOR_TARGET_QUALITY" -> WAITING_FOR_TARGET_QUALITY
      [] name = "GOT_HLS_URL" -> GOT_HLS_URL
      [] name = "FRAGMENT_PROGRESS" -> FRAGMENT_PROGRESS
      [] name = "MUXING" -> MUXING

Emitted(typ) == Cardinality({i \in 1..Len(events) : TypeOf(events[i]) = typ})

\* C39: at every moment of a session the events emitted so far are in the
\* order of their types; WAITING_FOR_ONLINE comes at most once and only when
\* the first probe found the channel offline; STREAM_ONLINE precedes every
\* later event and comes once; GOT_HLS_URL precedes every FRAGMENT_PROGRESS
\* and MUXING and comes once; the k-th FRAGMENT_PROGRESS carries
\* fragments_downloaded = k and a total_size not below the one before.
C39_EventOrder ==
    /\ \A i, j \in 1..Len(events) : i < j => TypeOf(events[i]) <= TypeOf(events[j])
    /\ Emitted(WAITING_FOR_ONLINE) <= 1
    /\ Emitted(WAITING_FOR_ONLINE) = 1 => (probeLog # <<>> /\ ~IsOnline(probeLog[1]))
    /\ Emitted(STREAM_ONLINE) <= 1
    /\ Emitted(GOT_HLS_URL) <= 1
    /\ (\E i \in 1..Len(events) : TypeOf(events[i]) > STREAM_ONLINE)
         => Emitted(STREAM_ONLINE) = 1
    /\ (\E i \in 1..Len(events) : TypeOf(events[i]) > GOT_HLS_URL)
         => Emitted(GOT_HLS_URL) = 1
    /\ Len(progress) = Emitted(FRAGMENT_PROGRESS)
    /\ \A k \in 1..Len(progress) :
         /\ progress[k].fragments_downloaded = k
         /\ k > 1 => progress[k].total_size >= progress[k - 1].total_size

\* a session that has emitted every type, with two waits for the quality,
\* two fragments and both remuxes
C39_FullSession ==
    /\ events = <<"WAITING_FOR_ONLINE", "STREAM_ONLINE", "WAITING_FOR_TARGET_QUALITY",
                  "WAITING_FOR_TARGET_QUALITY", "GOT_HLS_URL", "FRAGMENT_PROGRESS",
                  "FRAGMENT_PROGRESS", "MUXING", "MUXING">>
    /\ progress[2].total_size = 1
    /\ dlPc = "returned"


\* C40: the paths download() has resolved for the artifacts of the session
\* (stream, chat, info, thumbnail, muxed, audio, and the WS dump when there is
\* one) are pairwise distinct, whatever the quality.
C40_PathsDistinct ==
    \A i, j \in DOMAIN Artifacts :
       (i # j /\ paths[i] # NoPath /\ paths[j] # NoPath) => paths[i] # paths[j]

====
